---- MODULE Spec2Model ----
(***************************************************************************)
(* flag-edge: the persistent state machine behind the level/flag strategy. *)
(*                                                                         *)
(* The tables of the store (pattern_states, system_events,                 *)
(* execution_state, aggregated_bars, strategy_executions) are the global   *)
(* state.  A cycle is one invocation of executeEnhancedStrategy            *)
(* (lib/level-flag-strategy.js) or of executeCompleteStrategy              *)
(* (api/webhook/trade-signal.js); every await of a handler is one step, so *)
(* that two invocations interleave exactly where the code can be           *)
(* suspended.  All cycles are for one symbol and the timeframe "10m", for  *)
(* which normalizeTimeframe is the identity.                               *)
(*                                                                         *)
(* Prices are integers, a threshold such as 0.5% is kept as a per-mille    *)
(* factor and comparisons are cross-multiplied.  The clock ticks in hours. *)
(*                                                                         *)
(* Spec is the two cycles over the pattern and execution-state tables: a   *)
(* behaviour has either two invocations that overlap on a store that       *)
(* answers, or invocations one after the other on a store whose calls may  *)
(* fail.  SpecLevel is the calls of LevelManager on detected_levels        *)
(* (upsertLevel, recordTouch, invalidateBrokenLevels), SpecPattern the     *)
(* operations of PatternManager called directly, and SpecSweep the         *)
(* enhanced cycle invoked without end under weak fairness.  SpecRisk is    *)
(* one call of RiskManager and SpecDetector one call of LevelDetector on   *)
(* arguments of the caller's choice; SpecScenario is a flag detected and   *)
(* stored, followed by the cycle step that tests one bar for a breakout.   *)
(***************************************************************************)
EXTENDS Integers, Sequences, FiniteSets, TLC

\* ---------------------------------------------------------------- bounds
MaxBars == 2          \* bars the supplier produces in one behaviour
MaxTime == 1          \* clock ticks in one behaviour
MaxCycles == 2        \* invocations started in one behaviour
MaxFaults == 1        \* store operations that fail in one behaviour
MaxRows == 3          \* rows of pattern_states
MaxUpserts == 2       \* calls of upsertLevel in one behaviour
MaxCalls == 3         \* direct calls of PatternManager in one behaviour
MaxTouches == 2       \* calls of recordTouch in one behaviour
MaxSweeps == 1        \* calls of invalidateBrokenLevels in one behaviour
MaxPivotBars == 5     \* bars passed to findPivotPoints

\* ------------------------------------------------------ program constants
TouchThresholdMilli == 5     \* PatternManager.touchThreshold = 0.005
VolumeFractionTenths == 6    \* pole_avg_volume * 0.6
ExpirationHours == 3         \* '10m': 18 bars of 10 minutes
MaxScore == 17               \* validateFlagPattern maxScore
GoodScore == 7               \* rating 'good' starts at score 7
MinConfluence == 1           \* confluence.count >= 1
SimilarLevelMilli == 5       \* LevelManager.similarLevelThreshold = 0.005
DefaultConfidence == 50      \* levelData.confidence || 0.5, in hundredths
ConfidenceBoost == 1         \* existingLevel.confidence + 0.01, in hundredths
FullConfidence == 100        \* Math.min(1.0, ...), in hundredths
HeldConfidenceChange == 2    \* held ? 0.02 : -0.05, in hundredths
BrokenConfidenceChange == -5
MaxDailyLossPct == 2         \* RiskManager.maxDailyLoss = 0.02
MaxPositionSizeMilli == 50   \* RiskManager.maxPositionSize = 0.05
RiskPerTradeMilli == 10      \* RiskManager.riskPerTrade = 0.01
MinBuyingPowerPct == 10      \* RiskManager.minBuyingPower = 0.10
MaxOpenPositions == 5        \* RiskManager.maxOpenPositions
ToleranceMilli == 2          \* LevelDetector.tolerance = 0.002
ConverterExpirationHours == 8   \* calculatePatternExpiration, timeframe 10m

\* A nullable column holds NULL or Some(v).
NULL == <<>>
Some(v) == <<v>>
Today == "today"            \* new Date().toISOString().split('T')[0]
Yesterday == "yesterday"
Cycles == {"c1", "c2"}
Terminal == {"BROKEN_OUT", "FAILED", "EXPIRED"}
NonTerminal == {"FORMING", "CONSOLIDATING", "CONFIRMED"}

\* The bars the supplier may produce.  det is the verdict of
\* FlagDetector.detectFlag on the window that ends at the bar: 0 for no flag,
\* otherwise the validity score of the (bullish) flag it returns.
BarKinds ==
  { [close |-> 1010, volume |-> 70, det |-> 0],    \* beyond the buffer, volume
    [close |-> 1010, volume |-> 50, det |-> 0],    \* beyond the buffer, thin
    [close |-> 1003, volume |-> 70, det |-> 0],    \* above the level, in the buffer
    [close |-> 990,  volume |-> 70, det |-> 0],    \* below the flag
    [close |-> 1000, volume |-> 70, det |-> 4] }   \* a flag rated 'poor'

VARIABLES
  now,        \* the wall clock, in hours; the date stays Today throughout
  bars,       \* aggregated_bars, oldest first; a bar's timestamp is its index
  patterns,   \* pattern_states, in order of insertion; pattern_id is the index
  events,     \* system_events rows written by logPatternEvent
  exec,       \* the execution_state row of the symbol+timeframe
  signals,    \* strategy_executions rows: the pattern ids of the trade signals
  orders,     \* bracket orders submitted to the broker: their pattern ids
  cyc,        \* the local variables of each invocation
  started,    \* invocations started so far
  faults,     \* store operations that have failed so far
  resets,     \* daily resets written to execution_state on Today
  mode,       \* what a behaviour explores: "overlap", "faults" or "forever"
  levels,     \* detected_levels, in order of insertion; id is the index
  lastUpsert, \* the levelData of the latest upsertLevel, if any
  upserts,    \* calls of upsertLevel so far
  calls,      \* direct calls of PatternManager so far
  touches,    \* calls of recordTouch so far
  sweeps,     \* calls of invalidateBrokenLevels so far
  arg,        \* the arguments of a call of a function without state, if any
  ret         \* what that call returned, if it has returned

\* detected_levels and the calls of LevelManager and of PatternManager.
levelVars == <<levels, lastUpsert, upserts, calls, touches, sweeps, arg, ret>>

vars == <<now, bars, patterns, events, exec, signals, orders, cyc,
          started, faults, resets, mode, levels, lastUpsert, upserts, calls,
          touches, sweeps, arg, ret>>

\* ------------------------------------------------------------- helpers
Max(a, b) == IF a >= b THEN a ELSE b

\* JavaScript's ToNumber on a stored numeric column: null is 0.
ToNumber(v) == IF v = NULL THEN 0 ELSE v[1]

\* The ids of a set as a sequence, newest first (order detected_at desc).
RECURSIVE NewestFirst(_)
NewestFirst(S) ==
  IF S = {} THEN <<>>
  ELSE LET m == CHOOSE x \in S : \A y \in S : y <= x
       IN <<m>> \o NewestFirst(S \ {m})

NoState ==
  [exists |-> FALSE, last_bar_processed |-> NULL,
   patterns_detected_today |-> 0, signals_generated_today |-> 0,
   trades_executed_today |-> 0, bars_analyzed |-> 0,
   last_daily_reset |-> "none"]

\* The local variables of an invocation that is not running.
Idle ==
  [pc |-> "idle", ret |-> "idle", state |-> NoState,
   nbars |-> 0, cur |-> 0, active |-> <<>>, todo |-> <<>>, found |-> <<>>,
   created |-> 0, sent |-> 0, traded |-> 0, failed |-> FALSE,
   advanced |-> FALSE, brokerFailed |-> FALSE, result |-> "none",
   entry |-> NoState,   \* entry: the row of execution_state at the start
   risk |-> [canTrade |-> FALSE, reason |-> "none"]]

\* An invocation that has returned: "no_new_data" is success with the message
\* 'No new data to process', "no_bars" success with bars_processed 0,
\* "halted" success with can_trade false and the reason of the market check,
\* a reason of checkPreTradeRisk success with can_trade false and that
\* reason, "error" success false with the message of the error.
Returned(result) == [Idle EXCEPT !.result = result]

\* A new row that counts a bar already.
newStateCounted ==
  [NoState EXCEPT !.exists = TRUE, !.last_daily_reset = Today, !.bars_analyzed = 1]

\* newState of getExecutionState and of loadExecutionState, and
\* getDefaultExecutionState: a zero-valued row dated today.
newState == [NoState EXCEPT !.exists = TRUE, !.last_daily_reset = Today]

\* ------------------------------------------------ PatternManager (pure)
calculateExpiration(t) == t + ExpirationHours

\* checkBreakout with no thresholdBuffer around the breakout level.
checkBreakoutNoBuffer(pattern, currentPrice, currentVolume, currentBar) ==
  LET isBullish == pattern.pattern_type = "bullish_flag"
      level == pattern.breakout_level
      breakoutConfirmed ==
        IF isBullish THEN currentPrice > level ELSE currentPrice < level
  IN IF level = 0 \/ currentPrice = 0 \/ ~breakoutConfirmed
     THEN [breakout |-> FALSE, volumeConfirmed |-> FALSE, barConfirmed |-> FALSE,
           currentVolume |-> currentVolume]
     ELSE [breakout |-> TRUE,
           volumeConfirmed |->
             currentVolume * 10 >= ToNumber(pattern.pole_avg_volume) * VolumeFractionTenths,
           barConfirmed |-> IF isBullish THEN currentBar.close > level
                            ELSE currentBar.close < level,
           currentVolume |-> currentVolume]

\* checkBreakout: the price is compared with breakoutLevel * (1 +- 0.005),
\* which is breakoutLevel * (200 +- 1) / 200.
checkBreakout(pattern, currentPrice, currentVolume, currentBar) ==
  LET isBullish == pattern.pattern_type = "bullish_flag"
      breakoutLevel == pattern.breakout_level
      missing == breakoutLevel = 0 \/ currentPrice = 0
      level == breakoutLevel
      parts == 1000 \div TouchThresholdMilli
      breakoutConfirmed ==
        IF isBullish
        THEN currentPrice * parts > level * (parts + 1)
        ELSE currentPrice * parts < level * (parts - 1)
      volumeConfirmed ==
        currentVolume * 10 >= ToNumber(pattern.pole_avg_volume) * VolumeFractionTenths
      barConfirmed ==
        IF isBullish THEN currentBar.close > level ELSE currentBar.close < level
  IN IF missing \/ ~breakoutConfirmed
     THEN [breakout |-> FALSE, volumeConfirmed |-> FALSE, barConfirmed |-> FALSE,
           currentVolume |-> currentVolume]
     ELSE [breakout |-> TRUE, volumeConfirmed |-> volumeConfirmed,
           barConfirmed |-> barConfirmed, currentVolume |-> currentVolume]

\* The rows getActivePatterns selects, newest first.
getActivePatterns ==
  NewestFirst({ i \in DOMAIN patterns :
                  /\ patterns[i].stage \in NonTerminal
                  /\ patterns[i].expires_at > now })

\* The row markBreakout writes and the event it logs.
markBreakoutRows(id, breakoutData, barTs) ==
  IF id \in DOMAIN patterns
  THEN [patterns EXCEPT ![id].stage = "BROKEN_OUT",
                        ![id].breakout_time = Some(barTs),
                        ![id].breakout_volume = Some(breakoutData.currentVolume)]
  ELSE patterns

logPatternEvent(id, eventType, barTs) ==
  Append(events, [pattern_id |-> id, event_type |-> eventType, bar |-> barTs])

\* The row createPattern inserts: the stage is always FORMING, the volume of
\* the pole is read from patternData.pole, the expiry is recomputed.
createPatternRow(patternData) ==
  [pattern_type |-> patternData.pattern_type,
   stage |-> "FORMING",
   quality_score |-> patternData.quality_score,
   breakout_level |-> patternData.breakout_level,
   pole_avg_volume |-> patternData.pole_avgVolume,
   flag_high |-> IF patternData.flag = NULL THEN NULL ELSE Some(patternData.flag.high),
   flag_low |-> IF patternData.flag = NULL THEN NULL ELSE Some(patternData.flag.low),
   confluence_count |-> patternData.confluence_count,
   expires_at |-> calculateExpiration(now),
   breakout_time |-> NULL,
   breakout_volume |-> NULL,
   formation |-> patternData.formation]

\* expire_old_patterns, the stored procedure behind expireOldPatterns.
expire_old_patterns ==
  [i \in DOMAIN patterns |->
     IF patterns[i].stage \in NonTerminal /\ ~(patterns[i].expires_at > now)
     THEN [patterns[i] EXCEPT !.stage = "EXPIRED"]
     ELSE patterns[i]]

\* ------------------------------------------------------------ the store
\* A pattern row as createPattern writes it when the caller supplies
\* patternData.pole: detected two hours ago and not yet due.
SeedPattern(type) ==
  [pattern_type |-> type, stage |-> "FORMING", quality_score |-> 13,
   breakout_level |-> 1000, pole_avg_volume |-> Some(100),
   flag_high |-> Some(999), flag_low |-> Some(995), confluence_count |-> 1,
   expires_at |-> 1, breakout_time |-> NULL, breakout_volume |-> NULL,
   formation |-> 0]

\* The execution_state row left by the cycles of the previous day.
StaleState ==
  [newState EXCEPT !.patterns_detected_today = 1,
                   !.last_daily_reset = Yesterday]

Init ==
  /\ now = 0
  /\ bars = <<>>
  /\ patterns = <<SeedPattern("bullish_flag")>>
  /\ events = <<>>
  /\ exec \in {NoState, StaleState}
  /\ signals = <<>>
  /\ orders = <<>>
  /\ cyc = [c \in Cycles |-> Idle]
  /\ started = 0
  /\ faults = 0
  /\ resets = 0
  /\ mode \in {"overlap", "faults"}
  /\ levels = <<>>
  /\ lastUpsert = NULL
  /\ upserts = 0
  /\ calls = 0
  /\ touches = 0
  /\ sweeps = 0
  /\ arg = NULL
  /\ ret = NULL

\* --------------------------------------------------------- environment
\* The wall clock advances.
Tick ==
  /\ now < MaxTime
  /\ now' = now + 1
  /\ UNCHANGED <<bars, patterns, events, exec, signals, orders, cyc, started,
                 faults, resets, mode, levelVars>>

\* The bar supplier appends the next bar of the timeframe.
NewBar ==
  /\ Len(bars) < MaxBars
  /\ \E b \in BarKinds : bars' = Append(bars, b)
  /\ UNCHANGED <<now, patterns, events, exec, signals, orders, cyc, started,
                 faults, resets, mode, levelVars>>

\* A behaviour explores the overlap of two invocations on a store that
\* answers, or invocations that run one after the other on a store that may
\* fail MaxFaults times.  In the mode "forever" the invocations one after
\* the other never cease.
CanFail == mode # "overlap" /\ faults < MaxFaults

\* An invocation takes the first free slot.
CanStart(c) ==
  /\ cyc[c].pc = "idle"
  /\ started < MaxCycles \/ mode = "forever"
  /\ c = "c2" => cyc["c1"].pc # "idle" /\ mode = "overlap"

\* The invocations counted, up to MaxCycles.
Counted == IF started < MaxCycles THEN started + 1 ELSE started

\* ------------------------------------------------ ExecutionStateManager
\* getExecutionState, the select: the row, or the branch that follows.
GetStateRead(c) ==
  /\ cyc[c].pc = "gs_read"
  /\ \/ /\ CanFail                         \* the select fails: default state
        /\ faults' = faults + 1
        /\ cyc' = [cyc EXCEPT ![c].state = newState, ![c].pc = cyc[c].ret]
     \/ /\ ~exec.exists                    \* PGRST116: create the row
        /\ cyc' = [cyc EXCEPT ![c].pc = "gs_create"]
        /\ UNCHANGED faults
     \/ /\ exec.exists
        /\ exec.last_daily_reset # Today   \* a new day: reset the counters
        /\ cyc' = [cyc EXCEPT ![c].state = exec, ![c].pc = "gs_reset"]
        /\ UNCHANGED faults
     \/ /\ exec.exists
        /\ exec.last_daily_reset = Today
        /\ cyc' = [cyc EXCEPT ![c].state = exec, ![c].pc = cyc[c].ret]
        /\ UNCHANGED faults
  /\ UNCHANGED <<now, bars, patterns, events, exec, signals, orders, started,
                 resets, mode, levelVars>>

\* The key of execution_state: one row per symbol+timeframe, so that an
\* insert that finds the row already there is refused.
insertConflicts == exec.exists

\* getExecutionState, the insert of newState; a refused insert is an
\* insertError.
GetStateCreate(c) ==
  /\ cyc[c].pc = "gs_create"
  /\ \/ /\ ~insertConflicts
        /\ exec' = newState
        /\ UNCHANGED faults
     \/ /\ insertConflicts
        /\ UNCHANGED <<exec, faults>>
     \/ /\ ~insertConflicts
        /\ CanFail
        /\ faults' = faults + 1
        /\ UNCHANGED exec
  /\ cyc' = [cyc EXCEPT ![c].state = newState, ![c].pc = cyc[c].ret]
  /\ UNCHANGED <<now, bars, patterns, events, signals, orders, started, resets, mode, levelVars>>

\* performDailyReset that forgets the cursor as well.
resetDataWithCursor(row) ==
  [row EXCEPT !.patterns_detected_today = 0,
              !.signals_generated_today = 0,
              !.trades_executed_today = 0,
              !.last_bar_processed = NULL,
              !.last_daily_reset = Today]

\* performDailyReset: the update that zeroes the daily counters.
resetData(row) ==
  [row EXCEPT !.patterns_detected_today = 0,
              !.signals_generated_today = 0,
              !.trades_executed_today = 0,
              !.last_daily_reset = Today]

GetStateReset(c) ==
  /\ cyc[c].pc = "gs_reset"
  /\ \/ /\ exec' = resetData(exec)
        /\ resets' = resets + 1
        /\ cyc' = [cyc EXCEPT ![c].state = resetData(exec), ![c].pc = cyc[c].ret]
        /\ UNCHANGED faults
     \/ /\ CanFail
        /\ faults' = faults + 1
        /\ cyc' = [cyc EXCEPT ![c].state = resetData(cyc[c].state),
                              ![c].pc = cyc[c].ret]
        /\ UNCHANGED <<exec, resets>>
  /\ UNCHANGED <<now, bars, patterns, events, signals, orders, started, mode, levelVars>>

\* -------------------------------------------- executeEnhancedStrategy
StartEnhanced(c) ==
  /\ CanStart(c)
  /\ started' = Counted
  /\ cyc' = [cyc EXCEPT ![c] = [Idle EXCEPT !.pc = "gs_read", !.ret = "e2_load",
                                            !.entry = exec]]
  /\ UNCHANGED <<now, bars, patterns, events, exec, signals, orders, faults,
                 resets, mode, levelVars>>

\* Step 2: getActivePatterns (an error yields no patterns).
E2Load(c) ==
  /\ cyc[c].pc = "e2_load"
  /\ \/ /\ cyc' = [cyc EXCEPT ![c].active = getActivePatterns,
                              ![c].pc = "e3_fetch"]
        /\ UNCHANGED faults
     \/ /\ CanFail
        /\ faults' = faults + 1
        /\ cyc' = [cyc EXCEPT ![c].active = <<>>, ![c].pc = "e3_fetch"]
  /\ UNCHANGED <<now, bars, patterns, events, exec, signals, orders, started,
                 resets, mode, levelVars>>

\* fetchRecentBars: the timestamps of the bars newer than the cursor read in
\* step 1 (an error yields no bars).
fetchRecentBars(execState) ==
  { i \in 1..Len(bars) :
      \/ execState.last_bar_processed = NULL
      \/ i > ToNumber(execState.last_bar_processed) }

\* The gate of step 4 without the volume confirmation.
ConfirmedWithoutVolume(id, bar) ==
  LET b == checkBreakout(patterns[id], bar.close, bar.volume, bar)
  IN b.breakout /\ b.barConfirmed

\* The gate of step 4 (and of step 8 of the webhook): breakout, volume and
\* bar are all confirmed.
Confirmed(id, bar) ==
  LET b == checkBreakout(patterns[id], bar.close, bar.volume, bar)
  IN b.breakout /\ b.volumeConfirmed /\ b.barConfirmed

\* The part of a list of patterns from the first one whose breakout the bar
\* confirms: the loop of step 4 runs without an await up to that pattern.
RECURSIVE FromConfirmed(_, _)
FromConfirmed(list, bar) ==
  IF list = <<>> THEN <<>>
  ELSE IF Confirmed(Head(list), bar) THEN list
  ELSE FromConfirmed(Tail(list), bar)

\* Step 3: no new bars ends the cycle with success and no work.
E3Fetch(c) ==
  /\ cyc[c].pc = "e3_fetch"
  /\ \/ /\ fetchRecentBars(cyc[c].state) = {}
        /\ cyc' = [cyc EXCEPT ![c] = Returned("no_new_data")]
        /\ UNCHANGED faults
     \/ /\ fetchRecentBars(cyc[c].state) # {}
        /\ cyc' = [cyc EXCEPT ![c].cur = Len(bars),
                              ![c].nbars = Cardinality(fetchRecentBars(cyc[c].state)),
                              ![c].state = NoState,
                              ![c].entry = NoState,
                              ![c].todo = cyc[c].active,
                              ![c].pc = "e4_breakout"]
        /\ UNCHANGED faults
     \/ /\ CanFail                      \* the select fails: no bars
        /\ faults' = faults + 1
        /\ cyc' = [cyc EXCEPT ![c] = Returned("no_new_data")]
  /\ UNCHANGED <<now, bars, patterns, events, exec, signals, orders, started,
                 resets, mode, levelVars>>

\* Step 4: checkBreakout on the current bar for each active pattern, and
\* markBreakout when breakout, volume and bar are all confirmed.
E4Breakout(c) ==
  /\ cyc[c].pc = "e4_breakout"
  /\ LET bar == bars[cyc[c].cur]
         rest == FromConfirmed(cyc[c].todo, bar)
     IN IF rest = <<>>
        THEN /\ cyc' = [cyc EXCEPT ![c].todo = <<>>, ![c].pc = "e5_levels"]
             /\ UNCHANGED <<patterns, events, faults>>
        ELSE LET id == Head(rest)
                 b == checkBreakout(patterns[id], bar.close, bar.volume, bar)
             IN \/ /\ patterns' = markBreakoutRows(id, b, cyc[c].cur)
                   /\ events' = logPatternEvent(id, "BREAKOUT_CONFIRMED", cyc[c].cur)
                   /\ cyc' = [cyc EXCEPT ![c].todo = Tail(rest),
                                         ![c].found = Append(cyc[c].found, id)]
                   /\ UNCHANGED faults
                \/ /\ CanFail               \* the insert of the event fails
                   /\ faults' = faults + 1
                   /\ patterns' = markBreakoutRows(id, b, cyc[c].cur)
                   /\ cyc' = [cyc EXCEPT ![c].todo = Tail(rest),
                                         ![c].found = Append(cyc[c].found, id)]
                   /\ UNCHANGED events
                \/ /\ CanFail
                   /\ faults' = faults + 1
                   /\ cyc' = [cyc EXCEPT ![c].todo = Tail(rest),
                                         ![c].failed = TRUE]
                   /\ UNCHANGED <<patterns, events>>
  /\ UNCHANGED <<now, bars, exec, signals, orders, started, resets, mode, levelVars>>

\* Steps 5 to 7: recordTouch for the levels the bar touches and upsertLevel
\* for the legacy levels.  detectNewFlagPatterns returns no pattern.  The
\* level tables are not part of this state; a failed write is remembered.
E5Levels(c) ==
  /\ cyc[c].pc = "e5_levels"
  /\ \/ /\ cyc' = [cyc EXCEPT ![c].pc = "e8_signals"]
        /\ UNCHANGED faults
     \/ /\ CanFail
        /\ faults' = faults + 1
        /\ cyc' = [cyc EXCEPT ![c].failed = TRUE, ![c].pc = "e8_signals"]
  /\ UNCHANGED <<now, bars, patterns, events, exec, signals, orders, started,
                 resets, mode, levelVars>>

\* validateTradeSignal: quality_score >= 0.7 and confluence_count >= 1.
validateTradeSignal(pattern) ==
  /\ ~(pattern.quality_score * 10 < 7 * MaxScore)
  /\ ~(pattern.confluence_count < 1)

RECURSIVE SelectSeq2(_, _)
SelectSeq2(list, S) ==
  IF list = <<>> THEN <<>>
  ELSE IF Head(list) \in S THEN <<Head(list)>> \o SelectSeq2(Tail(list), S)
  ELSE SelectSeq2(Tail(list), S)

Range(list) == { list[i] : i \in DOMAIN list }

\* Step 8: generateEnhancedTradeSignal for each valid breakout signal.
E8Signals(c) ==
  /\ cyc[c].pc = "e8_signals"
  /\ LET valid == { id \in Range(cyc[c].found) : validateTradeSignal(patterns[id]) }
     IN \/ /\ signals' = signals \o SelectSeq2(cyc[c].found, valid)
           /\ cyc' = [cyc EXCEPT ![c].sent = Cardinality(valid),
                                 ![c].pc = "gs_read", ![c].ret = "e9_incr"]
           /\ UNCHANGED faults
        \/ /\ CanFail
           /\ \E lost \in valid :
                /\ signals' = signals \o SelectSeq2(cyc[c].found, valid \ {lost})
                /\ cyc' = [cyc EXCEPT ![c].sent = Cardinality(valid) - 1,
                                      ![c].pc = "gs_read", ![c].ret = "e9_incr"]
           /\ faults' = faults + 1
  /\ UNCHANGED <<now, bars, patterns, events, exec, orders, started, resets, mode, levelVars>>

\* Step 9, incrementCounters: the state read by getExecutionState plus this
\* cycle's counts, written by updateExecutionState.
E9Incr(c) ==
  /\ cyc[c].pc = "e9_incr"
  /\ \/ /\ exec.exists
        /\ exec' = [exec EXCEPT
             !.patterns_detected_today =
                cyc[c].state.patterns_detected_today + cyc[c].created,
             !.signals_generated_today =
                cyc[c].state.signals_generated_today + cyc[c].sent,
             !.trades_executed_today = cyc[c].state.trades_executed_today,
             !.bars_analyzed = cyc[c].state.bars_analyzed + cyc[c].nbars]
        /\ cyc' = [cyc EXCEPT ![c].state = NoState, ![c].pc = "e9_cursor"]
        /\ UNCHANGED faults
     \/ /\ ~exec.exists
        /\ cyc' = [cyc EXCEPT ![c].state = NoState, ![c].failed = TRUE,
                              ![c].pc = "e9_cursor"]
        /\ UNCHANGED <<exec, faults>>
     \/ /\ exec.exists
        /\ CanFail
        /\ faults' = faults + 1
        /\ cyc' = [cyc EXCEPT ![c].state = NoState, ![c].failed = TRUE,
                              ![c].pc = "e9_cursor"]
        /\ UNCHANGED exec
  /\ UNCHANGED <<now, bars, patterns, events, signals, orders, started, resets, mode, levelVars>>

\* Step 9, updateExecutionState: the cursor moves to the current bar.
E9Cursor(c) ==
  /\ cyc[c].pc = "e9_cursor"
  /\ \/ /\ exec.exists
        /\ exec' = [exec EXCEPT !.last_bar_processed = Some(cyc[c].cur),
                                !.bars_analyzed = cyc[c].nbars]
        /\ cyc' = [cyc EXCEPT ![c].advanced = TRUE, ![c].pc = "e10_cleanup"]
        /\ UNCHANGED faults
     \/ /\ ~exec.exists
        /\ cyc' = [cyc EXCEPT ![c].pc = "e10_cleanup"]
        /\ UNCHANGED <<exec, faults>>
     \/ /\ exec.exists
        /\ CanFail
        /\ faults' = faults + 1
        /\ cyc' = [cyc EXCEPT ![c].pc = "e10_cleanup"]
        /\ UNCHANGED exec
  /\ UNCHANGED <<now, bars, patterns, events, signals, orders, started, resets, mode, levelVars>>

\* Step 10: expireOldPatterns (and invalidateBrokenLevels), then the result.
E10Cleanup(c) ==
  /\ cyc[c].pc = "e10_cleanup"
  /\ \/ /\ patterns' = expire_old_patterns
        /\ UNCHANGED faults
     \/ /\ CanFail
        /\ faults' = faults + 1
        /\ UNCHANGED patterns
  /\ cyc' = [cyc EXCEPT ![c] = Returned("success")]
  /\ UNCHANGED <<now, bars, events, exec, signals, orders, started, resets, mode, levelVars>>

\* ------------------------------------------------------- RiskManager
\* n / d < p / q as JavaScript evaluates it on numbers (q > 0): a quotient by
\* zero is -Infinity, NaN or Infinity, and only -Infinity is below.
QuotientBelow(n, d, p, q) ==
  IF d = 0 THEN n < 0
  ELSE IF d > 0 THEN n * q < p * d
  ELSE n * q > p * d

\* checkPreTradeRisk with the check of the positions before the daily loss.
checkPreTradeRiskPositionsFirst(account, positions) ==
  IF account = NULL \/ positions = NULL
  THEN [canTrade |-> FALSE, reason |-> "risk_check_error"]
  ELSE LET a == account[1]
           dailyPnL == a.equity - a.last_equity
       IN IF positions[1] >= MaxOpenPositions
          THEN [canTrade |-> FALSE, reason |-> "max_open_positions"]
          ELSE IF QuotientBelow(dailyPnL, a.last_equity, 0 - MaxDailyLossPct, 100)
          THEN [canTrade |-> FALSE, reason |-> "daily_loss_limit"]
          ELSE IF QuotientBelow(a.buying_power, a.equity, MinBuyingPowerPct, 100)
          THEN [canTrade |-> FALSE, reason |-> "insufficient_buying_power"]
          ELSE IF a.account_blocked \/ a.trade_suspended_by_user
          THEN [canTrade |-> FALSE, reason |-> "account_blocked"]
          ELSE [canTrade |-> TRUE, reason |-> "all_passed"]

\* checkPreTradeRisk.  The account and the positions are Some(value), or NULL
\* when the caller passes none: reading a property of it throws, and the
\* catch block answers.
checkPreTradeRisk(account, positions) ==
  IF account = NULL
  THEN [canTrade |-> FALSE, reason |-> "risk_check_error"]
  ELSE LET a == account[1]
           dailyPnL == a.equity - a.last_equity
       IN IF QuotientBelow(dailyPnL, a.last_equity, 0 - MaxDailyLossPct, 100)
          THEN [canTrade |-> FALSE, reason |-> "daily_loss_limit"]
          ELSE IF positions = NULL
          THEN [canTrade |-> FALSE, reason |-> "risk_check_error"]
          ELSE IF positions[1] >= MaxOpenPositions
          THEN [canTrade |-> FALSE, reason |-> "max_open_positions"]
          ELSE IF QuotientBelow(a.buying_power, a.equity, MinBuyingPowerPct, 100)
          THEN [canTrade |-> FALSE, reason |-> "insufficient_buying_power"]
          ELSE IF a.account_blocked \/ a.trade_suspended_by_user
          THEN [canTrade |-> FALSE, reason |-> "account_blocked"]
          ELSE [canTrade |-> TRUE, reason |-> "all_passed"]

Min(a, b) == IF a <= b THEN a ELSE b

Abs(a) == IF a < 0 THEN 0 - a ELSE a

\* calculatePositionSize without 'ensure at least 1 if risk allows'.
calculatePositionSizeNoRoundUp(account, pattern, riskPerTrade) ==
  IF account = NULL
  THEN [quantity |-> 0, error |-> "exception"]
  ELSE LET equity == account[1].equity
           riskAmount == equity * (IF riskPerTrade = 0 THEN RiskPerTradeMilli
                                   ELSE riskPerTrade)
           entryPrice == pattern.breakout_level
           stopLoss == IF pattern.pattern_type = "bullish_flag"
                       THEN ToNumber(pattern.flag_low)
                       ELSE ToNumber(pattern.flag_high)
           riskPerShare == Abs(entryPrice - stopLoss)
           maxPositionValue == equity * MaxPositionSizeMilli
       IN IF riskPerShare = 0
          THEN [quantity |-> 0, error |-> "Risk per share is zero"]
          ELSE [quantity |-> Min(riskAmount \div (1000 * riskPerShare),
                                 maxPositionValue \div (1000 * entryPrice)),
                error |-> "none"]

\* calculatePositionSize without the limit of the position value.
calculatePositionSizeUncapped(account, pattern, riskPerTrade) ==
  IF account = NULL
  THEN [quantity |-> 0, error |-> "exception"]
  ELSE LET equity == account[1].equity
           riskAmount == equity * (IF riskPerTrade = 0 THEN RiskPerTradeMilli
                                   ELSE riskPerTrade)
           entryPrice == pattern.breakout_level
           stopLoss == IF pattern.pattern_type = "bullish_flag"
                       THEN ToNumber(pattern.flag_low)
                       ELSE ToNumber(pattern.flag_high)
           riskPerShare == Abs(entryPrice - stopLoss)
       IN IF riskPerShare = 0
          THEN [quantity |-> 0, error |-> "Risk per share is zero"]
          ELSE LET quantity == riskAmount \div (1000 * riskPerShare)
               IN [quantity |-> IF quantity < 1 /\ riskAmount >= 1000 * entryPrice
                                THEN 1 ELSE quantity,
                   error |-> "none"]

\* calculatePositionSize on an account with a non-negative equity and a
\* pattern with a positive breakout_level; riskPerTrade is in thousandths,
\* 0 for none.  The stop is flag_low or flag_high of the stored pattern,
\* where null counts as 0.
calculatePositionSize(account, pattern, riskPerTrade) ==
  IF account = NULL
  THEN [quantity |-> 0, error |-> "exception"]
  ELSE LET equity == account[1].equity
           riskAmount == equity * (IF riskPerTrade = 0 THEN RiskPerTradeMilli
                                   ELSE riskPerTrade)       \* in thousandths
           entryPrice == pattern.breakout_level
           stopLoss == IF pattern.pattern_type = "bullish_flag"
                       THEN ToNumber(pattern.flag_low)
                       ELSE ToNumber(pattern.flag_high)
           riskPerShare == Abs(entryPrice - stopLoss)
           maxPositionValue == equity * MaxPositionSizeMilli   \* in thousandths
       IN IF riskPerShare = 0
          THEN [quantity |-> 0, error |-> "Risk per share is zero"]
          ELSE LET quantity == Min(riskAmount \div (1000 * riskPerShare),
                                   maxPositionValue \div (1000 * entryPrice))
               IN [quantity |-> IF quantity < 1 /\ riskAmount >= 1000 * entryPrice
                                THEN 1 ELSE quantity,
                   error |-> "none"]

\* validateTrade; 0 stands for a missing parameter as well.
validateTrade(quantity, price, stopLoss, takeProfit) ==
  IF quantity <= 0 THEN [valid |-> FALSE, reason |-> "Invalid quantity"]
  ELSE IF price <= 0 THEN [valid |-> FALSE, reason |-> "Invalid price"]
  ELSE IF stopLoss <= 0 THEN [valid |-> FALSE, reason |-> "Invalid stop loss"]
  ELSE IF takeProfit <= 0 THEN [valid |-> FALSE, reason |-> "Invalid take profit"]
  ELSE IF QuotientBelow(Abs(takeProfit - price), Abs(price - stopLoss), 3, 2)
  THEN [valid |-> FALSE, reason |-> "Poor risk:reward ratio"]
  ELSE [valid |-> TRUE, reason |-> "none"]

\* -------------------------------------------- executeCompleteStrategy
\* Step 1, checkMarketConditions: a closed market ends the invocation.
StartComplete(c) ==
  /\ CanStart(c)
  /\ started' = Counted
  /\ \/ cyc' = [cyc EXCEPT ![c] = [Idle EXCEPT !.pc = "w2_read", !.entry = exec]]
     \/ cyc' = [cyc EXCEPT ![c] = Returned("halted")]
  /\ UNCHANGED <<now, bars, patterns, events, exec, signals, orders, faults,
                 resets, mode, levelVars>>

\* Step 2, loadExecutionState, the select: an error is thrown to the handler.
W2Read(c) ==
  /\ cyc[c].pc = "w2_read"
  /\ \/ /\ exec.exists
        /\ cyc' = [cyc EXCEPT ![c].state = exec, ![c].pc = "w3_risk"]
        /\ UNCHANGED faults
     \/ /\ ~exec.exists
        /\ cyc' = [cyc EXCEPT ![c].pc = "w2_create"]
        /\ UNCHANGED faults
     \/ /\ CanFail
        /\ faults' = faults + 1
        /\ cyc' = [cyc EXCEPT ![c] = Returned("error")]
  /\ UNCHANGED <<now, bars, patterns, events, exec, signals, orders, started,
                 resets, mode, levelVars>>

\* Step 2, loadExecutionState, the insert: createError is thrown.
W2Create(c) ==
  /\ cyc[c].pc = "w2_create"
  /\ \/ /\ ~insertConflicts
        /\ exec' = newState
        /\ cyc' = [cyc EXCEPT ![c].state = newState, ![c].pc = "w3_risk"]
        /\ UNCHANGED faults
     \/ /\ insertConflicts
        /\ cyc' = [cyc EXCEPT ![c] = Returned("error")]
        /\ UNCHANGED <<exec, faults>>
     \/ /\ ~insertConflicts
        /\ CanFail
        /\ faults' = faults + 1
        /\ cyc' = [cyc EXCEPT ![c] = Returned("error")]
        /\ UNCHANGED exec
  /\ UNCHANGED <<now, bars, patterns, events, signals, orders, started, resets, mode, levelVars>>

\* The accounts and the numbers of open positions the broker may report.
BrokerAccounts ==
  { [equity |-> 1000, last_equity |-> 1000, buying_power |-> 500,
     account_blocked |-> FALSE, trade_suspended_by_user |-> FALSE],
    [equity |-> 970, last_equity |-> 1000, buying_power |-> 500,
     account_blocked |-> FALSE, trade_suspended_by_user |-> FALSE],
    [equity |-> 1000, last_equity |-> 1000, buying_power |-> 50,
     account_blocked |-> FALSE, trade_suspended_by_user |-> FALSE],
    [equity |-> 1000, last_equity |-> 1000, buying_power |-> 500,
     account_blocked |-> TRUE, trade_suspended_by_user |-> FALSE] }

BrokerPositions == {0, MaxOpenPositions}

\* Step 3 that throws the rejection of checkPreTradeRisk.
AfterRiskCheckThrows(c, riskCheck, lost) ==
  IF riskCheck.canTrade
  THEN [cyc EXCEPT ![c].risk = riskCheck, ![c].brokerFailed = lost,
                   ![c].pc = "w4_fetch"]
  ELSE [cyc EXCEPT ![c] = Returned("error")]

\* Step 3 after checkPreTradeRisk: a rejection returns success with
\* can_trade false and the reason.
AfterRiskCheck(c, riskCheck, lost) ==
  IF riskCheck.canTrade
  THEN [cyc EXCEPT ![c].risk = riskCheck, ![c].brokerFailed = lost,
                   ![c].pc = "w4_fetch"]
  ELSE [cyc EXCEPT ![c] = Returned(riskCheck.reason)]

\* Step 3: getAlpacaAccount and getAlpacaPositions read the broker and
\* checkPreTradeRisk decides.  A failed read of the account is thrown to the
\* handler; a failed read of the positions yields no positions.
W3Risk(c) ==
  /\ cyc[c].pc = "w3_risk"
  /\ \/ /\ \E account \in BrokerAccounts, positions \in BrokerPositions :
             cyc' = AfterRiskCheck(c, checkPreTradeRisk(Some(account), Some(positions)),
                                   FALSE)
        /\ UNCHANGED faults
     \/ /\ CanFail                      \* the read of the account fails
        /\ faults' = faults + 1
        /\ cyc' = [cyc EXCEPT ![c] = Returned("error")]
     \/ /\ CanFail                      \* the read of the positions fails
        /\ faults' = faults + 1
        /\ \E account \in BrokerAccounts :
             cyc' = AfterRiskCheck(c, checkPreTradeRisk(Some(account), Some(0)), TRUE)
  /\ UNCHANGED <<now, bars, patterns, events, exec, signals, orders, started,
                 resets, mode, levelVars>>

\* Step 4, fetchEnhancedMarketData: the latest bars whatever the cursor; no
\* bars returns, an error throws.  Step 5 reads the active levels; with fewer
\* than 50 bars detectLevels yields no level to upsert.
W4Fetch(c) ==
  /\ cyc[c].pc = "w4_fetch"
  /\ \/ /\ bars = <<>>
        /\ cyc' = [cyc EXCEPT ![c] = Returned("no_bars")]
        /\ UNCHANGED faults
     \/ /\ bars # <<>>
        /\ cyc' = [cyc EXCEPT ![c].cur = Len(bars), ![c].nbars = Len(bars),
                              ![c].state = NoState, ![c].entry = NoState,
                              ![c].pc = "w6_load"]
        /\ UNCHANGED faults
     \/ /\ CanFail
        /\ faults' = faults + 1
        /\ cyc' = [cyc EXCEPT ![c] = Returned("error")]
  /\ UNCHANGED <<now, bars, patterns, events, exec, signals, orders, started,
                 resets, mode, levelVars>>

\* Step 6: getActivePatterns (an error yields no patterns).
W6Load(c) ==
  /\ cyc[c].pc = "w6_load"
  /\ \/ /\ cyc' = [cyc EXCEPT ![c].active = getActivePatterns,
                              ![c].pc = "w7_detect"]
        /\ UNCHANGED faults
     \/ /\ CanFail
        /\ faults' = faults + 1
        /\ cyc' = [cyc EXCEPT ![c].active = <<>>, ![c].pc = "w7_detect"]
  /\ UNCHANGED <<now, bars, patterns, events, exec, signals, orders, started,
                 resets, mode, levelVars>>

\* FlagDetector.calculateConfluence reads level.value, which no row of
\* detected_levels has: every comparison is with NaN and the score stays 0.
calculateConfluence == 0

\* calculatePatternExpiration of the webhook.
calculatePatternExpiration(t) == t + ConverterExpirationHours

\* convertFlagToPatternState: the pole's volume, the flag's bounds and the
\* stage are top-level fields of the result, there is no patternData.pole and
\* no patternData.flag.
convertFlagToPatternState(bar, barTs) ==
  [pattern_type |-> "bullish_flag",
   stage |-> "CONFIRMED",
   quality_score |-> bar.det,
   breakout_level |-> 1000,
   pole_avg_volume |-> Some(100),
   pole_avgVolume |-> NULL,
   flag_high |-> Some(999),
   flag_low |-> Some(995),
   flag |-> NULL,
   confluence_count |-> calculateConfluence,
   expires_at |-> calculatePatternExpiration(now),
   formation |-> barTs]

\* Step 7: detectFlag on the fetched bars; whatever flag it returns is stored
\* by createPattern and joins the patterns of step 8.
W7Detect(c) ==
  /\ cyc[c].pc = "w7_detect"
  /\ LET bar == bars[cyc[c].cur]
         patternData == convertFlagToPatternState(bar, cyc[c].cur)
     IN IF bar.det = 0
        THEN /\ cyc' = [cyc EXCEPT ![c].todo = cyc[c].active,
                                   ![c].pc = "w8_breakout"]
             /\ UNCHANGED <<patterns, events, faults>>
        ELSE \/ /\ Len(patterns) < MaxRows
                /\ patterns' = Append(patterns, createPatternRow(patternData))
                /\ events' = logPatternEvent(Len(patterns) + 1,
                                             "PATTERN_DETECTED", cyc[c].cur)
                /\ cyc' = [cyc EXCEPT
                     ![c].created = 1,
                     ![c].active = Append(cyc[c].active, Len(patterns) + 1),
                     ![c].todo = Append(cyc[c].active, Len(patterns) + 1),
                     ![c].pc = "w8_breakout"]
                /\ UNCHANGED faults
             \/ /\ Len(patterns) < MaxRows
                /\ CanFail                  \* the insert of the event fails
                /\ faults' = faults + 1
                /\ patterns' = Append(patterns, createPatternRow(patternData))
                /\ cyc' = [cyc EXCEPT
                     ![c].created = 1,
                     ![c].active = Append(cyc[c].active, Len(patterns) + 1),
                     ![c].todo = Append(cyc[c].active, Len(patterns) + 1),
                     ![c].pc = "w8_breakout"]
                /\ UNCHANGED events
             \/ /\ CanFail
                /\ faults' = faults + 1
                /\ cyc' = [cyc EXCEPT ![c].failed = TRUE,
                                      ![c].todo = cyc[c].active,
                                      ![c].pc = "w8_breakout"]
                /\ UNCHANGED <<patterns, events>>
  /\ UNCHANGED <<now, bars, exec, signals, orders, started, resets, mode, levelVars>>

\* Step 8: as step 4 of the enhanced cycle, but the result of markBreakout is
\* not looked at: the pattern counts as a breakout either way.
W8Breakout(c) ==
  /\ cyc[c].pc = "w8_breakout"
  /\ LET bar == bars[cyc[c].cur]
         rest == FromConfirmed(cyc[c].todo, bar)
     IN IF rest = <<>>
        THEN /\ cyc' = [cyc EXCEPT ![c].todo = <<>>, ![c].pc = "w9_touch"]
             /\ UNCHANGED <<patterns, events, faults>>
        ELSE LET id == Head(rest)
                 b == checkBreakout(patterns[id], bar.close, bar.volume, bar)
             IN \/ /\ patterns' = markBreakoutRows(id, b, cyc[c].cur)
                   /\ events' = logPatternEvent(id, "BREAKOUT_CONFIRMED", cyc[c].cur)
                   /\ cyc' = [cyc EXCEPT ![c].todo = Tail(rest),
                                         ![c].found = Append(cyc[c].found, id)]
                   /\ UNCHANGED faults
                \/ /\ CanFail               \* the insert of the event fails
                   /\ faults' = faults + 1
                   /\ patterns' = markBreakoutRows(id, b, cyc[c].cur)
                   /\ cyc' = [cyc EXCEPT ![c].todo = Tail(rest),
                                         ![c].found = Append(cyc[c].found, id)]
                   /\ UNCHANGED events
                \/ /\ CanFail
                   /\ faults' = faults + 1
                   /\ cyc' = [cyc EXCEPT ![c].todo = Tail(rest),
                                         ![c].found = Append(cyc[c].found, id),
                                         ![c].failed = TRUE]
                   /\ UNCHANGED <<patterns, events>>
  /\ UNCHANGED <<now, bars, exec, signals, orders, started, resets, mode, levelVars>>

\* Step 9: recordTouch for the levels the bar touches (the level tables are
\* not part of this state; a failed write is remembered).
W9Touch(c) ==
  /\ cyc[c].pc = "w9_touch"
  /\ \/ /\ cyc' = [cyc EXCEPT ![c].pc = "w10_trade"]
        /\ UNCHANGED faults
     \/ /\ CanFail
        /\ faults' = faults + 1
        /\ cyc' = [cyc EXCEPT ![c].failed = TRUE, ![c].pc = "w10_trade"]
  /\ UNCHANGED <<now, bars, patterns, events, exec, signals, orders, started,
                 resets, mode, levelVars>>

\* Step 10: a breakout of sufficient quality and confluence is traded when
\* the position size, the option chain, the option and the broker allow it.
\* After the order and logTrade the cycle calls patternManager.markTraded,
\* which PatternManager does not define: the TypeError ends the cycle.
W10Trade(c) ==
  /\ cyc[c].pc = "w10_trade"
  /\ LET eligible == { id \in Range(cyc[c].found) :
                         validateTradeSignal(patterns[id]) }
     IN \/ /\ cyc' = [cyc EXCEPT ![c].pc = "w11_state"]
           /\ UNCHANGED orders
        \/ \E id \in eligible :
             /\ orders' = Append(orders, id)
             /\ cyc' = [cyc EXCEPT ![c] = Returned("error")]
  /\ UNCHANGED <<now, bars, patterns, events, exec, signals, started, faults,
                 resets, mode, levelVars>>

\* Step 11, updateExecutionState of the webhook: the cursor and the counters
\* are set to this cycle's values; an error is swallowed.
W11State(c) ==
  /\ cyc[c].pc = "w11_state"
  /\ \/ /\ exec.exists
        /\ exec' = [exec EXCEPT
             !.last_bar_processed = Some(cyc[c].cur),
             !.bars_analyzed = cyc[c].nbars,
             !.patterns_detected_today = cyc[c].created,
             !.signals_generated_today = Len(cyc[c].found),
             !.trades_executed_today = cyc[c].traded]
        /\ cyc' = [cyc EXCEPT ![c].advanced = TRUE, ![c].pc = "w12_cleanup"]
        /\ UNCHANGED faults
     \/ /\ CanFail
        /\ faults' = faults + 1
        /\ cyc' = [cyc EXCEPT ![c].pc = "w12_cleanup"]
        /\ UNCHANGED exec
  /\ UNCHANGED <<now, bars, patterns, events, signals, orders, started, resets, mode, levelVars>>

\* Step 12: expireOldPatterns (and invalidateBrokenLevels), then the result.
W12Cleanup(c) ==
  /\ cyc[c].pc = "w12_cleanup"
  /\ \/ /\ patterns' = expire_old_patterns
        /\ UNCHANGED faults
     \/ /\ CanFail
        /\ faults' = faults + 1
        /\ UNCHANGED patterns
  /\ cyc' = [cyc EXCEPT ![c] = Returned("success")]
  /\ UNCHANGED <<now, bars, events, exec, signals, orders, started, resets, mode, levelVars>>

\* ---------------------------------------------------------- LevelManager
\* A price of detected_levels is a fraction <<numerator, denominator>> in
\* lowest terms, so that the weighted mean of calculateWeightedPrice is exact.
RECURSIVE GCD(_, _)
GCD(a, b) == IF b = 0 THEN a ELSE GCD(b, a % b)

Rat(n, d) == <<n \div GCD(n, d), d \div GCD(n, d)>>

\* The levelData a caller may pass: confidence 0 stands for a missing one, no
\* sources is what detectLevels of the webhook supplies.
LevelInputs ==
  [level_type : {"support", "resistance"},
   price_level : {1000, 1044, 1046},
   confidence : {0, 100},
   sources : {{}, {"pivot"}, {"pivot", "ema"}}]

\* findSimilarLevel without the filter on is_active.
findSimilarLevelAnyStatus(priceLevel, levelType) ==
  { i \in DOMAIN levels :
      /\ levels[i].level_type = levelType
      /\ levels[i].price_level[1] * 1000 >=
           priceLevel * (1000 - SimilarLevelMilli) * levels[i].price_level[2]
      /\ levels[i].price_level[1] * 1000 <=
           priceLevel * (1000 + SimilarLevelMilli) * levels[i].price_level[2] }

\* The rows findSimilarLevel may return: active, of the type, within 0.5% of
\* priceLevel on either side.
findSimilarLevel(priceLevel, levelType) ==
  { i \in DOMAIN levels :
      /\ levels[i].level_type = levelType
      /\ levels[i].is_active
      /\ levels[i].price_level[1] * 1000 >=
           priceLevel * (1000 - SimilarLevelMilli) * levels[i].price_level[2]
      /\ levels[i].price_level[1] * 1000 <=
           priceLevel * (1000 + SimilarLevelMilli) * levels[i].price_level[2] }

calculateWeightedPrice(existingLevel, newLevelData) ==
  LET existingWeight == IF existingLevel.confluence_count = 0 THEN 1
                        ELSE existingLevel.confluence_count
      newWeight == IF newLevelData.sources = {} THEN 1
                   ELSE Cardinality(newLevelData.sources)
      totalWeight == existingWeight + newWeight
      n == existingLevel.price_level[1]
      d == existingLevel.price_level[2]
  IN Rat(n * existingWeight + newLevelData.price_level * newWeight * d,
         d * totalWeight)

\* updateExistingLevel without Math.min(1.0, ...).
updateDataUncapped(existingLevel, newLevelData) ==
  LET mergedSources == existingLevel.sources \cup newLevelData.sources
  IN [existingLevel EXCEPT
        !.confidence = existingLevel.confidence + ConfidenceBoost,
        !.confluence_count = Cardinality(mergedSources),
        !.sources = mergedSources,
        !.price_level = calculateWeightedPrice(existingLevel, newLevelData),
        !.reconfirmation_count = existingLevel.reconfirmation_count + 1]

\* The row updateExistingLevel writes.
updateData(existingLevel, newLevelData) ==
  LET mergedSources == existingLevel.sources \cup newLevelData.sources
  IN [existingLevel EXCEPT
        !.confidence = IF existingLevel.confidence + ConfidenceBoost > FullConfidence
                       THEN FullConfidence
                       ELSE existingLevel.confidence + ConfidenceBoost,
        !.confluence_count = Cardinality(mergedSources),
        !.sources = mergedSources,
        !.price_level = calculateWeightedPrice(existingLevel, newLevelData),
        !.reconfirmation_count = existingLevel.reconfirmation_count + 1]

\* The defaults of the columns createNewLevel does not write: a level is
\* emitted with one touch and no break.
DefaultTouchCount == 1

DefaultBreakCount == 0

\* The row createNewLevel inserts; is_active, touch_count and break_count are
\* left to the columns' defaults.
createNewLevelRow(levelData) ==
  [level_type |-> levelData.level_type,
   price_level |-> Rat(levelData.price_level, 1),
   confidence |-> IF levelData.confidence = 0 THEN DefaultConfidence
                  ELSE levelData.confidence,
   confluence_count |-> Cardinality(levelData.sources),
   sources |-> levelData.sources,
   is_active |-> TRUE,
   reconfirmation_count |-> 0,
   touch_count |-> DefaultTouchCount,
   break_count |-> DefaultBreakCount,
   invalidated_at |-> NULL]

\* upsertLevel: findSimilarLevel, then updateExistingLevel on the row found
\* or createNewLevel.  A failed select counts as no similar level; a failed
\* update or insert leaves the table as it was.
UpsertLevel(levelData) ==
  /\ upserts < MaxUpserts
  /\ upserts' = upserts + 1
  /\ lastUpsert' = Some(levelData)
  /\ LET similar == findSimilarLevel(levelData.price_level, levelData.level_type)
     IN \/ /\ similar = {}
           /\ levels' = Append(levels, createNewLevelRow(levelData))
           /\ UNCHANGED faults
        \/ /\ \E i \in similar :
                levels' = [levels EXCEPT ![i] = updateData(levels[i], levelData)]
           /\ UNCHANGED faults
        \/ /\ similar # {}
           /\ CanFail                      \* the select fails
           /\ faults' = faults + 1
           /\ levels' = Append(levels, createNewLevelRow(levelData))
        \/ /\ CanFail                      \* the update or the insert fails
           /\ faults' = faults + 1
           /\ UNCHANGED levels
  /\ UNCHANGED <<now, bars, patterns, events, exec, signals, orders, cyc,
                 started, resets, mode, calls, touches, sweeps, arg, ret>>

\* The procedure update_level_stats of the store: the counts grow by the
\* increments and the confidence moves by the change within [0, 1].
update_level_stats(p_level_id, p_touch_increment, p_break_increment, p_confidence_change) ==
  LET row == levels[p_level_id]
      moved == row.confidence + p_confidence_change
  IN [levels EXCEPT ![p_level_id] =
        [row EXCEPT
           !.touch_count = row.touch_count + p_touch_increment,
           !.break_count = row.break_count + p_break_increment,
           !.confidence = IF moved < 0 THEN 0
                          ELSE IF moved > FullConfidence THEN FullConfidence
                          ELSE moved]]

\* recordTouch: the insert into level_touches, then update_level_stats with
\* one touch, a break unless the level held, and the confidence raised by
\* 0.02 or lowered by 0.05.  A failed insert ends the call; a failed
\* procedure is logged only.
RecordTouch(levelId, held) ==
  /\ touches < MaxTouches
  /\ touches' = touches + 1
  /\ \/ /\ levels' = update_level_stats(levelId, 1, IF held THEN 0 ELSE 1,
                                         IF held THEN HeldConfidenceChange
                                         ELSE BrokenConfidenceChange)
        /\ UNCHANGED faults
     \/ /\ CanFail                      \* the insert or the procedure fails
        /\ faults' = faults + 1
        /\ UNCHANGED levels
  /\ UNCHANGED <<now, bars, patterns, events, exec, signals, orders, cyc,
                 started, resets, mode, lastUpsert, upserts, calls, sweeps, arg, ret>>

\* The rows invalidateBrokenLevels selects and then keeps: active, broken at
\* least once, and broken in more than half of the touches or three times.
levelsToInvalidateRatioOnly ==
  { i \in DOMAIN levels :
      /\ levels[i].is_active
      /\ levels[i].break_count > 0
      /\ levels[i].break_count * 2 > Max(levels[i].touch_count, 1) }

levelsToInvalidate ==
  { i \in DOMAIN levels :
      /\ levels[i].is_active
      /\ levels[i].break_count > 0
      /\ \/ levels[i].break_count * 2 > Max(levels[i].touch_count, 1)
         \/ levels[i].break_count >= 3 }

\* invalidateBrokenLevels: the select, the filter, then one update of the
\* rows kept.  A failed select or update leaves the table as it was.
InvalidateBrokenLevels ==
  /\ sweeps < MaxSweeps
  /\ sweeps' = sweeps + 1
  /\ \/ /\ levels' = [i \in DOMAIN levels |->
                        IF i \in levelsToInvalidate
                        THEN [levels[i] EXCEPT !.is_active = FALSE,
                                               !.invalidated_at = Some(now)]
                        ELSE levels[i]]
        /\ UNCHANGED faults
     \/ /\ CanFail                      \* the select or the update fails
        /\ faults' = faults + 1
        /\ UNCHANGED levels
  /\ UNCHANGED <<now, bars, patterns, events, exec, signals, orders, cyc,
                 started, resets, mode, lastUpsert, upserts, calls, touches, arg, ret>>

\* ------------------------------------- PatternManager, called directly
Stages == NonTerminal \cup Terminal

\* The row markPatternFailed writes and the row updatePatternStage writes.
markPatternFailedRows(id) == [patterns EXCEPT ![id].stage = "FAILED"]

updatePatternStageRows(id, newStage) == [patterns EXCEPT ![id].stage = newStage]

\* The frame of a direct call of PatternManager.
PatternCall ==
  /\ calls < MaxCalls
  /\ calls' = calls + 1
  /\ UNCHANGED <<now, bars, exec, signals, orders, cyc, started, resets, mode,
                 levels, lastUpsert, upserts, touches, sweeps, arg, ret>>

\* createPattern: the insert of the row, then the PATTERN_DETECTED event.
CreatePattern(bar) ==
  /\ PatternCall
  /\ Len(patterns) < MaxRows
  /\ LET patternData == convertFlagToPatternState(bar, calls + 1)
         id == Len(patterns) + 1
     IN \/ /\ patterns' = Append(patterns, createPatternRow(patternData))
           /\ events' = logPatternEvent(id, "PATTERN_DETECTED", calls + 1)
           /\ UNCHANGED faults
        \/ /\ CanFail                      \* the insert of the event fails
           /\ faults' = faults + 1
           /\ patterns' = Append(patterns, createPatternRow(patternData))
           /\ UNCHANGED events
        \/ /\ CanFail                      \* the insert of the row fails
           /\ faults' = faults + 1
           /\ UNCHANGED <<patterns, events>>

\* markBreakout: the update by pattern_id, then the BREAKOUT_CONFIRMED
\* event.
MarkBreakout(id, bar) ==
  /\ PatternCall
  /\ LET b == checkBreakout(patterns[id], bar.close, bar.volume, bar)
     IN \/ /\ patterns' = markBreakoutRows(id, b, calls + 1)
           /\ events' = logPatternEvent(id, "BREAKOUT_CONFIRMED", calls + 1)
           /\ UNCHANGED faults
        \/ /\ CanFail                      \* the insert of the event fails
           /\ faults' = faults + 1
           /\ patterns' = markBreakoutRows(id, b, calls + 1)
           /\ UNCHANGED events
        \/ /\ CanFail                      \* the update fails
           /\ faults' = faults + 1
           /\ UNCHANGED <<patterns, events>>

\* markPatternFailed: the update by pattern_id, then the PATTERN_FAILED
\* event.
MarkPatternFailed(id) ==
  /\ PatternCall
  /\ \/ /\ patterns' = markPatternFailedRows(id)
        /\ events' = logPatternEvent(id, "PATTERN_FAILED", calls + 1)
        /\ UNCHANGED faults
     \/ /\ CanFail                         \* the insert of the event fails
        /\ faults' = faults + 1
        /\ patterns' = markPatternFailedRows(id)
        /\ UNCHANGED events
     \/ /\ CanFail                         \* the update fails
        /\ faults' = faults + 1
        /\ UNCHANGED <<patterns, events>>

\* updatePatternStage: the update by pattern_id; no event is logged.
UpdatePatternStage(id, newStage) ==
  /\ PatternCall
  /\ \/ /\ patterns' = updatePatternStageRows(id, newStage)
        /\ UNCHANGED faults
     \/ /\ CanFail
        /\ faults' = faults + 1
        /\ UNCHANGED patterns
  /\ UNCHANGED events

\* expireOldPatterns: the stored procedure, or its failure.
ExpireOldPatterns ==
  /\ PatternCall
  /\ \/ /\ patterns' = expire_old_patterns
        /\ UNCHANGED faults
     \/ /\ CanFail
        /\ faults' = faults + 1
        /\ UNCHANGED patterns
  /\ UNCHANGED events

Next ==
  \/ Tick
  \/ NewBar
  \/ \E c \in Cycles : GetStateRead(c)
  \/ \E c \in Cycles : GetStateCreate(c)
  \/ \E c \in Cycles : GetStateReset(c)
  \/ \E c \in Cycles : StartEnhanced(c)
  \/ \E c \in Cycles : E2Load(c)
  \/ \E c \in Cycles : E3Fetch(c)
  \/ \E c \in Cycles : E4Breakout(c)
  \/ \E c \in Cycles : E5Levels(c)
  \/ \E c \in Cycles : E8Signals(c)
  \/ \E c \in Cycles : E9Incr(c)
  \/ \E c \in Cycles : E9Cursor(c)
  \/ \E c \in Cycles : E10Cleanup(c)
  \/ \E c \in Cycles : StartComplete(c)
  \/ \E c \in Cycles : W2Read(c)
  \/ \E c \in Cycles : W2Create(c)
  \/ \E c \in Cycles : W3Risk(c)
  \/ \E c \in Cycles : W4Fetch(c)
  \/ \E c \in Cycles : W6Load(c)
  \/ \E c \in Cycles : W7Detect(c)
  \/ \E c \in Cycles : W8Breakout(c)
  \/ \E c \in Cycles : W9Touch(c)
  \/ \E c \in Cycles : W10Trade(c)
  \/ \E c \in Cycles : W11State(c)
  \/ \E c \in Cycles : W12Cleanup(c)

Spec == Init /\ [][Next]_vars

\* A level that four touches held and two broke.
SeedLevel ==
  [level_type |-> "support",
   price_level |-> Rat(1040, 1),
   confidence |-> DefaultConfidence + 4 * HeldConfidenceChange + 2 * BrokenConfidenceChange,
   confluence_count |-> 1,
   sources |-> {"pivot"},
   is_active |-> TRUE,
   reconfirmation_count |-> 0,
   touch_count |-> DefaultTouchCount + 6,
   break_count |-> DefaultBreakCount + 2,
   invalidated_at |-> NULL]

\* The calls of LevelManager one after the other, on a store that may fail.
InitLevel ==
  /\ now = 0
  /\ bars = <<>>
  /\ patterns = <<>>
  /\ events = <<>>
  /\ exec = NoState
  /\ signals = <<>>
  /\ orders = <<>>
  /\ cyc = [c \in Cycles |-> Idle]
  /\ started = 0
  /\ faults = 0
  /\ resets = 0
  /\ mode = "faults"
  /\ levels \in {<<>>, <<SeedLevel>>}
  /\ lastUpsert = NULL
  /\ upserts = 0
  /\ calls = 0
  /\ touches = 0
  /\ sweeps = 0
  /\ arg = NULL
  /\ ret = NULL

NextLevel ==
  \/ \E levelData \in LevelInputs : UpsertLevel(levelData)
  \/ \E levelId \in DOMAIN levels, held \in BOOLEAN : RecordTouch(levelId, held)
  \/ InvalidateBrokenLevels

SpecLevel == InitLevel /\ [][NextLevel]_vars

\* The operations of PatternManager called one after the other by any
\* caller, on a store that may fail.
InitPattern ==
  /\ now \in 0..MaxTime
  /\ bars = <<>>
  /\ patterns = <<SeedPattern("bullish_flag")>>
  /\ events = <<>>
  /\ exec = NoState
  /\ signals = <<>>
  /\ orders = <<>>
  /\ cyc = [c \in Cycles |-> Idle]
  /\ started = 0
  /\ faults = 0
  /\ resets = 0
  /\ mode = "faults"
  /\ levels = <<>>
  /\ lastUpsert = NULL
  /\ upserts = 0
  /\ calls = 0
  /\ touches = 0
  /\ sweeps = 0
  /\ arg = NULL
  /\ ret = NULL

NextPattern ==
  \/ \E bar \in BarKinds : CreatePattern(bar)
  \/ \E id \in DOMAIN patterns, bar \in BarKinds : MarkBreakout(id, bar)
  \/ \E id \in DOMAIN patterns : MarkPatternFailed(id)
  \/ \E id \in DOMAIN patterns, newStage \in Stages : UpdatePatternStage(id, newStage)
  \/ ExpireOldPatterns

SpecPattern == InitPattern /\ [][NextPattern]_vars

\* The enhanced cycle invoked again and again, one invocation after the
\* other: an invocation that has started runs to its end, and a new one is
\* started whenever none is running.
InitSweep ==
  /\ now = 0
  /\ bars = <<>>
  /\ patterns = <<SeedPattern("bullish_flag")>>
  /\ events = <<>>
  /\ exec \in {NoState, StaleState}
  /\ signals = <<>>
  /\ orders = <<>>
  /\ cyc = [c \in Cycles |-> Idle]
  /\ started = 0
  /\ faults = 0
  /\ resets = 0
  /\ mode = "forever"
  /\ levels = <<>>
  /\ lastUpsert = NULL
  /\ upserts = 0
  /\ calls = 0
  /\ touches = 0
  /\ sweeps = 0
  /\ arg = NULL
  /\ ret = NULL

EnhancedStep(c) ==
  \/ GetStateRead(c)
  \/ GetStateCreate(c)
  \/ GetStateReset(c)
  \/ E2Load(c)
  \/ E3Fetch(c)
  \/ E4Breakout(c)
  \/ E5Levels(c)
  \/ E8Signals(c)
  \/ E9Incr(c)
  \/ E9Cursor(c)
  \/ E10Cleanup(c)

NextSweep ==
  \/ Tick
  \/ NewBar
  \/ \E c \in Cycles : StartEnhanced(c)
  \/ \E c \in Cycles : EnhancedStep(c)

SpecSweep ==
  /\ InitSweep
  /\ [][NextSweep]_vars
  /\ WF_vars(\E c \in Cycles : StartEnhanced(c))
  /\ \A c \in Cycles : WF_vars(EnhancedStep(c))

\* RiskManager called once on arguments of the caller's choice.
RiskAccounts ==
  {NULL} \cup
  { Some(a) : a \in [equity : {0, 970, 980, 1000},
                     last_equity : {0, 1000},
                     buying_power : {0, 99, 100, 500},
                     account_blocked : BOOLEAN,
                     trade_suspended_by_user : BOOLEAN] }

RiskPositions == {NULL, Some(0), Some(MaxOpenPositions - 1), Some(MaxOpenPositions)}

SizeAccounts ==
  { Some([equity |-> e, last_equity |-> e, buying_power |-> e,
          account_blocked |-> FALSE, trade_suspended_by_user |-> FALSE]) :
      e \in {0, 500, 1000, 10000, 100000} }

Stops == {NULL, Some(5), Some(10), Some(40), Some(100), Some(106)}

SizePatterns ==
  [pattern_type : {"bullish_flag", "bearish_flag"},
   breakout_level : {10, 106, 600},
   flag_low : Stops,
   flag_high : Stops]

RiskCalls ==
  [op : {"checkPreTradeRisk"}, account : RiskAccounts, positions : RiskPositions]
  \cup [op : {"calculatePositionSize"}, account : SizeAccounts,
        pattern : SizePatterns, riskPerTrade : {0, 8, 12}]
  \cup [op : {"validateTrade"}, quantity : {-1, 0, 1}, price : {-1, 0, 100},
        stopLoss : {0, 90, 96, 100, 110}, takeProfit : {0, 85, 100, 106, 115}]

InitRisk ==
  /\ now = 0
  /\ bars = <<>>
  /\ patterns = <<>>
  /\ events = <<>>
  /\ exec = NoState
  /\ signals = <<>>
  /\ orders = <<>>
  /\ cyc = [c \in Cycles |-> Idle]
  /\ started = 0
  /\ faults = 0
  /\ resets = 0
  /\ mode = "faults"
  /\ levels = <<>>
  /\ lastUpsert = NULL
  /\ upserts = 0
  /\ calls = 0
  /\ touches = 0
  /\ sweeps = 0
  /\ arg \in { Some(call) : call \in RiskCalls }
  /\ ret = NULL

\* The frame of a call of a function without state: it returns once.
Call(op) ==
  /\ arg # NULL
  /\ arg[1].op = op
  /\ ret = NULL
  /\ UNCHANGED <<now, bars, patterns, events, exec, signals, orders, cyc,
                 started, faults, resets, mode, levels, lastUpsert, upserts,
                 calls, touches, sweeps, arg>>

CheckPreTradeRisk ==
  /\ Call("checkPreTradeRisk")
  /\ ret' = Some(checkPreTradeRisk(arg[1].account, arg[1].positions))

CalculatePositionSize ==
  /\ Call("calculatePositionSize")
  /\ ret' = Some(calculatePositionSize(arg[1].account, arg[1].pattern,
                                       arg[1].riskPerTrade))

ValidateTrade ==
  /\ Call("validateTrade")
  /\ ret' = Some(validateTrade(arg[1].quantity, arg[1].price, arg[1].stopLoss,
                               arg[1].takeProfit))

NextRisk == CheckPreTradeRisk \/ CalculatePositionSize \/ ValidateTrade

SpecRisk == InitRisk /\ [][NextRisk]_vars

\* ------------------------------------------------------ LevelDetector
\* Bars are numbered from 1, so that the loop of findPivotPoints runs from
\* window + 1 to Len(bars) - window.
isPivotHighLeftOnly(barList, i, window) ==
  \A k \in (i - window)..(i - 1) : barList[k].high <= barList[i].high

isPivotHigh(barList, i, window) ==
  /\ \A k \in (i - window)..(i - 1) : barList[k].high <= barList[i].high
  /\ \A k \in (i + 1)..(i + window) : barList[k].high < barList[i].high

isPivotLow(barList, i, window) ==
  /\ \A k \in (i - window)..(i - 1) : barList[k].low >= barList[i].low
  /\ \A k \in (i + 1)..(i + window) : barList[k].low > barList[i].low

\* The array pivots of findPivotPoints from bar i on; the timestamp of a bar
\* is its number.
RECURSIVE PivotsFrom(_, _, _)
PivotsFrom(barList, window, i) ==
  IF i > Len(barList) - window THEN <<>>
  ELSE (IF isPivotHigh(barList, i, window)
        THEN <<[type |-> "resistance", value |-> barList[i].high,
                timestamp |-> i, touches |-> 1]>>
        ELSE <<>>)
       \o (IF isPivotLow(barList, i, window)
           THEN <<[type |-> "support", value |-> barList[i].low,
                   timestamp |-> i, touches |-> 1]>>
           ELSE <<>>)
       \o PivotsFrom(barList, window, i + 1)

RECURSIVE SumOf(_, _, _)
SumOf(list, S, field) ==
  IF S = {} THEN 0
  ELSE LET i == CHOOSE x \in S : TRUE
       IN list[i][field] + SumOf(list, S \ {i}, field)

\* other is similar to level: of its type and within the tolerance of its
\* value (values are positive).
similarLevel(level, other) ==
  /\ Abs(level.value - other.value) * 1000 <= ToleranceMilli * level.value
  /\ level.type = other.type

\* consolidateLevels from index on: a level not yet processed gathers the
\* unprocessed levels similar to it and becomes one level with the mean of
\* their values, as a fraction, and the sum of their touches.
RECURSIVE ConsolidateFrom(_, _, _)
ConsolidateFrom(list, index, processed) ==
  IF index > Len(list) THEN <<>>
  ELSE IF index \in processed THEN ConsolidateFrom(list, index + 1, processed)
  ELSE LET similarIndices ==
             {index} \cup { otherIndex \in (DOMAIN list) \ processed :
                              /\ otherIndex # index
                              /\ similarLevel(list[index], list[otherIndex]) }
       IN <<[list[index] EXCEPT
               !.value = Rat(SumOf(list, similarIndices, "value"),
                             Cardinality(similarIndices)),
               !.touches = SumOf(list, similarIndices, "touches")]>>
          \o ConsolidateFrom(list, index + 1, processed \cup similarIndices)

consolidateLevels(list) == ConsolidateFrom(list, 1, {})

\* findPivotPoints: the array pivots and the levels returned.
findPivotPoints(barList, window) ==
  LET pivots == PivotsFrom(barList, window, window + 1)
  IN [pivots |-> pivots, levels |-> consolidateLevels(pivots)]

\* LevelDetector called once on arguments of the caller's choice.
PivotBars == [high : {1000, 1001, 1010}, low : {900, 990}]

RECURSIVE SeqsOf(_, _)
SeqsOf(S, n) ==
  IF n = 0 THEN {<<>>}
  ELSE { Append(q, x) : q \in SeqsOf(S, n - 1), x \in S }

InputLevels ==
  [type : {"support", "resistance"}, value : {1000, 1002, 1003},
   timestamp : {1}, touches : {1, 3}]

DetectorCalls ==
  [op : {"findPivotPoints"},
   bars : UNION { SeqsOf(PivotBars, n) : n \in 3..MaxPivotBars },
   window : {1, 2}]
  \cup [op : {"consolidateLevels"}, levels : SeqsOf(InputLevels, 2)]

InitDetector ==
  /\ now = 0
  /\ bars = <<>>
  /\ patterns = <<>>
  /\ events = <<>>
  /\ exec = NoState
  /\ signals = <<>>
  /\ orders = <<>>
  /\ cyc = [c \in Cycles |-> Idle]
  /\ started = 0
  /\ faults = 0
  /\ resets = 0
  /\ mode = "faults"
  /\ levels = <<>>
  /\ lastUpsert = NULL
  /\ upserts = 0
  /\ calls = 0
  /\ touches = 0
  /\ sweeps = 0
  /\ arg \in { Some(call) : call \in DetectorCalls }
  /\ ret = NULL

FindPivotPoints ==
  /\ Call("findPivotPoints")
  /\ ret' = Some(findPivotPoints(arg[1].bars, arg[1].window))

ConsolidateLevels ==
  /\ Call("consolidateLevels")
  /\ ret' = Some(consolidateLevels(arg[1].levels))

NextDetector == FindPivotPoints \/ ConsolidateLevels

SpecDetector == InitDetector /\ [][NextDetector]_vars

\* ------------------------------------- FlagDetector.calculateBreakoutLevel
\* Prices are in tenths. With percent = (high - low) / ((high + low) / 2) and
\* buffer = percent * 0.1, the level high * (1 + buffer) or low * (1 - buffer)
\* is the fraction below, in lowest terms.
calculateBreakoutLevel(flagPattern, direction) ==
  LET high == flagPattern.range.high
      low == flagPattern.range.low
      whole == 10 * (high + low)
      buffer == 2 * (high - low)
  IN IF direction = "bullish"
     THEN Rat(high * (whole + buffer), whole)
     ELSE Rat(low * (whole - buffer), whole)

\* A flag is detected and stored, and the next cycle processes one bar. The
\* row and the bar hold their prices in the unit, a fraction of a tenth, in
\* which the breakout level is a whole number.
ScenarioFlags ==
  [range : { [high |-> 1063, low |-> 1058], [high |-> 1063, low |-> 1053] },
   direction : {"bullish", "bearish"}]

ScenarioBars ==
  [close : {1040, 1050, 1060, 1064, 1065, 1068, 1069, 1070},
   volume : {59, 60, 100}]

ScenarioCalls ==
  [op : {"detectFlag"}, flagPattern : ScenarioFlags, bar : ScenarioBars]

ScenarioLevel == calculateBreakoutLevel(arg[1].flagPattern, arg[1].flagPattern.direction)

ScenarioBar ==
  [close |-> arg[1].bar.close * ScenarioLevel[2], volume |-> arg[1].bar.volume]

InitScenario ==
  /\ now = 0
  /\ bars = <<>>
  /\ patterns = <<>>
  /\ events = <<>>
  /\ exec = NoState
  /\ signals = <<>>
  /\ orders = <<>>
  /\ cyc = [c \in Cycles |-> Idle]
  /\ started = 0
  /\ faults = 0
  /\ resets = 0
  /\ mode = "faults"
  /\ levels = <<>>
  /\ lastUpsert = NULL
  /\ upserts = 0
  /\ calls = 0
  /\ touches = 0
  /\ sweeps = 0
  /\ arg \in { Some(call) : call \in ScenarioCalls }
  /\ ret = NULL

\* detectFlag and the insert of createPattern: the row carries the breakout
\* level of calculateBreakoutLevel and the flag's bounds.
DetectFlag ==
  /\ patterns = <<>>
  /\ LET type == IF arg[1].flagPattern.direction = "bullish"
                 THEN "bullish_flag" ELSE "bearish_flag"
     IN patterns' =
          <<[SeedPattern(type) EXCEPT
               !.breakout_level = ScenarioLevel[1],
               !.flag_high = Some(arg[1].flagPattern.range.high * ScenarioLevel[2]),
               !.flag_low = Some(arg[1].flagPattern.range.low * ScenarioLevel[2])]>>
  /\ UNCHANGED <<now, bars, events, exec, signals, orders, cyc, started, faults,
                 resets, mode, levels, lastUpsert, upserts, calls, touches,
                 sweeps, arg, ret>>

\* Step 4 of the cycle on the bar: checkBreakout, and markBreakout when the
\* breakout, the volume and the bar are all confirmed.
ProcessBar ==
  /\ patterns # <<>>
  /\ ret = NULL
  /\ LET b == checkBreakout(patterns[1], ScenarioBar.close, ScenarioBar.volume,
                            ScenarioBar)
     IN /\ ret' = Some(b)
        /\ IF Confirmed(1, ScenarioBar)
           THEN /\ patterns' = markBreakoutRows(1, b, 1)
                /\ events' = logPatternEvent(1, "BREAKOUT_CONFIRMED", 1)
           ELSE UNCHANGED <<patterns, events>>
  /\ UNCHANGED <<now, bars, exec, signals, orders, cyc, started, faults, resets,
                 mode, levels, lastUpsert, upserts, calls, touches, sweeps, arg>>

NextScenario == DetectFlag \/ ProcessBar

SpecScenario == InitScenario /\ [][NextScenario]_vars

\* ================================================================ claims
\* The three conditions of a confirmed breakout, stated of a stored pattern
\* and a bar.
PriceBeyondBuffer(p, bar) ==
  IF p.pattern_type = "bullish_flag"
  THEN bar.close * 1000 > p.breakout_level * (1000 + TouchThresholdMilli)
  ELSE bar.close * 1000 < p.breakout_level * (1000 - TouchThresholdMilli)

VolumeAtLeastFraction(p, bar) ==
  bar.volume * 10 >= ToNumber(p.pole_avg_volume) * VolumeFractionTenths

CloseBeyondLevel(p, bar) ==
  IF p.pattern_type = "bullish_flag"
  THEN bar.close > p.breakout_level
  ELSE bar.close < p.breakout_level

AllThree(p, bar) ==
  PriceBeyondBuffer(p, bar) /\ VolumeAtLeastFraction(p, bar) /\ CloseBeyondLevel(p, bar)

BreakoutEvents == { k \in DOMAIN events : events[k].event_type = "BREAKOUT_CONFIRMED" }

\* C1: once a pattern's stage is BROKEN_OUT, FAILED or EXPIRED, no step of any
\* later or overlapping cycle changes its stage again.
C1_TerminalStageIsFinal ==
  [][\A i \in DOMAIN patterns :
       patterns[i].stage \in Terminal => patterns'[i].stage = patterns[i].stage]_vars

C3_CursorNeverDecreases ==
  [][ToNumber(exec'.last_bar_processed) >= ToNumber(exec.last_bar_processed)]_vars

\* C4: the daily counters are zeroed exactly once per calendar day: no second
\* reset is written on the same date.
C4_OneResetPerDay == resets <= 1

\* C5: a cycle advances last_bar_processed only if every dependent write of
\* that cycle succeeded.
C5_AdvanceOnlyAfterSuccess ==
  \A c \in Cycles : cyc[c].advanced => ~cyc[c].failed

\* An invocation that has written execution_state and has a write to come.
BetweenWrites(d) == cyc[d].pc \in {"e9_cursor", "e10_cleanup", "w12_cleanup"}

\* C6: the writes of two cycles for the same symbol+timeframe do not
\* interleave: while one cycle is between two of its writes, no step of
\* another cycle changes execution_state or pattern_states.
C6_WritesDoNotInterleave ==
  [][\A c \in Cycles, d \in Cycles :
       (c # d /\ BetweenWrites(d) /\ cyc'[c] # cyc[c])
         => (exec' = exec /\ patterns' = patterns)]_vars

\* C7: the same breakout evaluation applied twice for the same pattern and
\* the same bar records one BREAKOUT_CONFIRMED event, not two.
C7_OneBreakoutEventPerBar ==
  \A j \in BreakoutEvents, k \in BreakoutEvents :
    (events[j].pattern_id = events[k].pattern_id /\ events[j].bar = events[k].bar)
      => j = k

\* C8: cycles that run over the same bars leave one pattern_states row per
\* formation.
C8_OneRowPerFormation ==
  \A i \in DOMAIN patterns, j \in DOMAIN patterns :
    (patterns[i].formation # 0 /\ patterns[i].formation = patterns[j].formation)
      => i = j

\* C9: upsertLevel replayed with the same level data leaves detected_levels
\* as the first application left it: the same price_level, confidence, sources
\* and confluence_count, and no additional row.
C9_UpsertReplayIsIdempotent ==
  [][(upserts' = upserts + 1 /\ lastUpsert' = lastUpsert /\ faults' = faults)
       => /\ Len(levels') = Len(levels)
          /\ \A i \in DOMAIN levels :
               /\ levels'[i].price_level = levels[i].price_level
               /\ levels'[i].confidence = levels[i].confidence
               /\ levels'[i].sources = levels[i].sources
               /\ levels'[i].confluence_count = levels[i].confluence_count]_vars

\* C10: a pattern row inserted by a cycle has a validity rating of at least
\* 'good' and a confluence with the active levels of at least the minimum.
C10_InsertedOnlyThroughGates ==
  \A i \in DOMAIN patterns :
    patterns[i].formation # 0 =>
      /\ patterns[i].quality_score >= GoodScore
      /\ patterns[i].confluence_count >= MinConfluence


\* C11: no bar is skipped by the breakout check.  The pattern of the initial
\* store is active while the clock has not moved; with no failed call, a bar
\* at or before the cursor that confirms its breakout has been evaluated, so
\* the pattern has been marked.
C11_NoBarSkipped ==
  (now = 0 /\ faults = 0) =>
    \A t \in 1..Len(bars) :
      (t <= ToNumber(exec.last_bar_processed) /\ AllThree(patterns[1], bars[t]))
        => patterns[1].stage = "BROKEN_OUT"

\* A pattern the sweep is due to expire.
Overdue(i) ==
  /\ i \in DOMAIN patterns
  /\ patterns[i].stage \in NonTerminal
  /\ ~(patterns[i].expires_at > now)

\* C12: while cycles keep being invoked, every non-terminal pattern whose
\* expires_at has passed is eventually a terminal one.
C12_OverdueEventuallyExpired ==
  \A i \in 1..MaxRows : Overdue(i) ~> ~Overdue(i)

\* The bar closes beyond the opposite boundary of the pattern's flag.
ClosedAgainst(p, bar) ==
  IF p.pattern_type = "bullish_flag"
  THEN p.flag_low # NULL /\ bar.close < ToNumber(p.flag_low)
  ELSE p.flag_high # NULL /\ bar.close > ToNumber(p.flag_high)

\* C13: once a cycle whose calls all succeeded is past its breakout step, no
\* pattern it loaded is still non-terminal if the bar it evaluated closed
\* beyond the opposite boundary of the flag: the cycle has marked it FAILED.
C13_ClosedAgainstIsFailed ==
  \A c \in Cycles :
    (cyc[c].pc \in {"e5_levels", "e8_signals", "w9_touch", "w10_trade"} /\ faults = 0) =>
      \A k \in DOMAIN cyc[c].active :
        ClosedAgainst(patterns[cyc[c].active[k]], bars[cyc[c].cur])
          => patterns[cyc[c].active[k]].stage \notin NonTerminal

\* C14: every call that creates a pattern or changes its stage through
\* createPattern, updatePatternStage, markBreakout or markPatternFailed, and
\* whose store requests all succeed, adds an audit event carrying the
\* pattern's id.
C14_TransitionHasEvent ==
  [][faults' = faults =>
       \A i \in DOMAIN patterns' :
         (/\ i \notin DOMAIN patterns \/ patterns'[i].stage # patterns[i].stage
          /\ patterns'[i].stage # "EXPIRED")
           => \E k \in DOMAIN events' :
                /\ k \notin DOMAIN events
                /\ events'[k].pattern_id = i]_vars

\* The rule of invalidation: broken in more than half of the touches, or
\* broken three times.
Broken(level) ==
  \/ level.break_count * 2 > Max(level.touch_count, 1)
  \/ level.break_count >= 3

\* C15: a call of invalidateBrokenLevels whose store requests succeed leaves
\* every level that meets the rule inactive with invalidated_at set, changes
\* is_active of no other level, and deletes no row.
C15_InvalidatesExactlyTheBroken ==
  [][(sweeps' = sweeps + 1 /\ faults' = faults) =>
       /\ Len(levels') = Len(levels)
       /\ \A i \in DOMAIN levels :
            /\ Broken(levels[i]) =>
                 ~levels'[i].is_active /\ levels'[i].invalidated_at # NULL
            /\ ~Broken(levels[i]) =>
                 levels'[i].is_active = levels[i].is_active]_vars

\* A successful call has invalidated a level broken three times in more than
\* six touches and has left active a level broken in exactly half of them.
C15_Witness ==
  /\ sweeps = 1
  /\ faults = 0
  /\ \E i, j \in DOMAIN levels :
       /\ ~levels[i].is_active
       /\ levels[i].invalidated_at # NULL
       /\ levels[i].break_count >= 3
       /\ levels[i].break_count * 2 <= levels[i].touch_count
       /\ levels[j].is_active
       /\ levels[j].break_count * 2 = levels[j].touch_count

Progress(row) ==
  <<row.last_bar_processed, row.patterns_detected_today,
    row.signals_generated_today, row.trades_executed_today, row.bars_analyzed>>

\* The steps of a cycle up to the read of the bars.
BeforeBars == {"gs_read", "gs_create", "gs_reset", "e2_load", "e3_fetch",
               "w2_read", "w2_create", "w3_risk", "w4_fetch"}

\* C18 as stated: an invocation that runs alone and returns because the
\* supplier had no new bar leaves the cursor and the counters as they were
\* when it started.
C18_ZeroBarsZeroWork ==
  [][\A c \in Cycles :
       (/\ mode = "faults"
        /\ faults' = 0
        /\ cyc[c].pc \in {"e3_fetch", "w4_fetch"}
        /\ cyc'[c].result \in {"no_new_data", "no_bars"})
         => Progress(exec') = Progress(cyc[c].entry)]_vars

\* C18 as amended: every step of a cycle up to the read of the bars leaves
\* the patterns, the levels and the cursor unchanged, and changes a counter
\* only in the daily reset of getExecutionState, to zero; a successful read
\* of no bars then returns success.
C18_ZeroBarsOnlyDailyReset ==
  [][\A c \in Cycles :
       (cyc[c].pc \in BeforeBars /\ cyc'[c] # cyc[c]) =>
         /\ patterns' = patterns
         /\ levels' = levels
         /\ exec'.last_bar_processed = exec.last_bar_processed
         /\ exec'.bars_analyzed = exec.bars_analyzed
         /\ \/ Progress(exec') = Progress(exec)
            \/ /\ cyc[c].pc = "gs_reset"
               /\ exec'.patterns_detected_today = 0
               /\ exec'.signals_generated_today = 0
               /\ exec'.trades_executed_today = 0
         /\ (cyc[c].pc = "e3_fetch" /\ fetchRecentBars(cyc[c].state) = {})
              => cyc'[c].result = "no_new_data"
         /\ (cyc[c].pc = "w4_fetch" /\ bars = <<>> /\ faults' = faults)
              => cyc'[c].result = "no_bars"]_vars

\* The first invocation found yesterday's row, reset its counters and then
\* returned because there was no new bar.
C18_Witness ==
  /\ started = 1
  /\ faults = 0
  /\ resets = 1
  /\ cyc["c1"].result = "no_new_data"
  /\ exec.patterns_detected_today = 0
  /\ exec.last_daily_reset = Today

\* C19: a cycle whose read of the bars fails returns success = false with the
\* cause, never the successful result of a supplier without new bars.
C19_BarReadFailureIsReported ==
  [][\A c \in Cycles :
       (cyc[c].pc \in {"e3_fetch", "w4_fetch"} /\ faults' = faults + 1)
         => cyc'[c].result = "error"]_vars

\* C20: a cycle whose read of the account or of the positions fails returns
\* the failure, and no later step of it submits an order or moves the cursor.
C20_BrokerFailureIsFatal ==
  [][\A c \in Cycles :
       /\ (cyc[c].pc = "w3_risk" /\ faults' = faults + 1)
            => cyc'[c].result = "error"
       /\ (cyc[c].brokerFailed /\ cyc'[c] # cyc[c])
            => /\ orders' = orders
               /\ exec'.last_bar_processed = exec.last_bar_processed]_vars

\* The reasons of a rejection by checkPreTradeRisk.
RiskReasons == {"daily_loss_limit", "max_open_positions",
                "insufficient_buying_power", "account_blocked", "risk_check_error"}

\* C21: step 3 of the webhook cycle, when the broker has answered, either
\* goes on with a risk check that allows trading or ends the cycle with
\* success, can_trade false and the reason of the rejection; it submits no
\* order, and the cycle that ended submits none afterwards.
C21_RejectionIsNotAnError ==
  [][\A c \in Cycles :
       (cyc[c].pc = "w3_risk" /\ cyc'[c] # cyc[c] /\ faults' = faults) =>
         /\ orders' = orders
         /\ \/ cyc'[c].pc = "w4_fetch" /\ cyc'[c].risk.canTrade
            \/ cyc'[c].pc = "idle" /\ cyc'[c].result \in RiskReasons]_vars

\* The first webhook cycle was rejected for the daily loss and no order
\* exists.
C21_Witness ==
  /\ started = 1
  /\ cyc["c1"].pc = "idle"
  /\ cyc["c1"].result = "daily_loss_limit"
  /\ orders = <<>>

\* The call that has returned.
Returns(op) == arg # NULL /\ ret # NULL /\ arg[1].op = op

\* The daily loss of an account is beyond the limit:
\* (equity - last_equity) / last_equity < -maxDailyLoss.
LossBeyondLimit(a) ==
  /\ a.last_equity > 0
  /\ (a.equity - a.last_equity) * 100 < (0 - MaxDailyLossPct) * a.last_equity

\* C22: whenever the daily loss of the account is beyond the limit,
\* checkPreTradeRisk answers canTrade = false with the reason of the daily
\* loss limit, whatever the positions, the buying power and the status.
C22_DailyLossAlwaysRejects ==
  (Returns("checkPreTradeRisk") /\ arg[1].account # NULL) =>
    (LossBeyondLimit(arg[1].account[1]) =>
       ret[1] = [canTrade |-> FALSE, reason |-> "daily_loss_limit"])

\* A losing account with the maximum of open positions, no buying power and
\* a block was rejected for the daily loss.
C22_Witness ==
  /\ Returns("checkPreTradeRisk")
  /\ arg[1].account # NULL
  /\ arg[1].account[1].equity = 970
  /\ arg[1].account[1].last_equity = 1000
  /\ arg[1].account[1].buying_power = 0
  /\ arg[1].account[1].account_blocked
  /\ arg[1].positions = Some(MaxOpenPositions)
  /\ ret[1].reason = "daily_loss_limit"

\* buying power / equity is at or above the minimum fraction; a positive
\* buying power over no equity counts as above, 0 / 0 is no fraction at all.
BuyingPowerAtLeast(a) ==
  \/ a.equity > 0 /\ a.buying_power * 100 >= MinBuyingPowerPct * a.equity
  \/ a.equity = 0 /\ a.buying_power > 0

AllFourPass(a, openPositions) ==
  /\ ~LossBeyondLimit(a)
  /\ openPositions < MaxOpenPositions
  /\ BuyingPowerAtLeast(a)
  /\ ~(a.account_blocked \/ a.trade_suspended_by_user)

\* C23: checkPreTradeRisk answers canTrade = true exactly when the four
\* checks pass, and canTrade = false when the account or the positions are
\* missing, which raises an exception.
C23_CanTradeIffAllFourPass ==
  Returns("checkPreTradeRisk") =>
    IF arg[1].account = NULL \/ arg[1].positions = NULL
    THEN ~ret[1].canTrade
    ELSE ret[1].canTrade = AllFourPass(arg[1].account[1], arg[1].positions[1])

\* The quantities of the call of calculatePositionSize, in thousandths of
\* the currency where they are amounts.
SizeEquity == arg[1].account[1].equity

SizeEntry == arg[1].pattern.breakout_level

SizeRiskAmount ==
  SizeEquity * (IF arg[1].riskPerTrade = 0 THEN RiskPerTradeMilli
                ELSE arg[1].riskPerTrade)

SizeRiskPerUnit ==
  Abs(SizeEntry - (IF arg[1].pattern.pattern_type = "bullish_flag"
                   THEN ToNumber(arg[1].pattern.flag_low)
                   ELSE ToNumber(arg[1].pattern.flag_high)))

SizeByRisk == SizeRiskAmount \div (1000 * SizeRiskPerUnit)

SizeByValue == (SizeEquity * MaxPositionSizeMilli) \div (1000 * SizeEntry)

RewardToRiskAtLeast(price, stopLoss, takeProfit) ==
  LET risk == Abs(price - stopLoss)
      reward == Abs(takeProfit - price)
  IN \/ risk > 0 /\ reward * 2 >= 3 * risk
     \/ risk = 0 /\ reward > 0

\* C26: validateTrade answers valid = true only if the quantity, the price,
\* the stop loss and the take profit are positive and the reward is at least
\* 1.5 times the risk, also when the stop loss equals the price; otherwise
\* it answers valid = false with a reason.
C26_ValidOnlyWithRewardToRisk ==
  Returns("validateTrade") =>
    /\ ret[1].valid =>
         /\ arg[1].quantity > 0
         /\ arg[1].price > 0
         /\ arg[1].stopLoss > 0
         /\ arg[1].takeProfit > 0
         /\ RewardToRiskAtLeast(arg[1].price, arg[1].stopLoss, arg[1].takeProfit)
    /\ ~ret[1].valid => ret[1].reason # "none"

\* The bars that have a full window on both sides, and the bars findPivotPoints
\* has classified as pivot highs.
FullWindow == (arg[1].window + 1)..(Len(arg[1].bars) - arg[1].window)

PivotHighs ==
  { ret[1].pivots[k].timestamp :
      k \in { n \in DOMAIN ret[1].pivots : ret[1].pivots[n].type = "resistance" } }

Window(i) == ((i - arg[1].window)..(i + arg[1].window)) \ {i}

PivotLows ==
  { ret[1].pivots[k].timestamp :
      k \in { n \in DOMAIN ret[1].pivots : ret[1].pivots[n].type = "support" } }

\* Bars i and j, j the later and within the window of i, share the maximal
\* high of their windows, and i is the earliest bar with that high.
TiedHighs(i, j) ==
  /\ i < j
  /\ j \in Window(i)
  /\ arg[1].bars[i].high = arg[1].bars[j].high
  /\ \A k \in Window(i) \cup Window(j) : arg[1].bars[k].high <= arg[1].bars[i].high
  /\ \A k \in Window(i) : k < i => arg[1].bars[k].high < arg[1].bars[i].high

TiedLows(i, j) ==
  /\ i < j
  /\ j \in Window(i)
  /\ arg[1].bars[i].low = arg[1].bars[j].low
  /\ \A k \in Window(i) \cup Window(j) : arg[1].bars[k].low >= arg[1].bars[i].low
  /\ \A k \in Window(i) : k < i => arg[1].bars[k].low > arg[1].bars[i].low

\* C28: when bars of one window share the maximal high, findPivotPoints
\* classifies the earliest of the tied bars as the pivot high and not the
\* later ones; likewise for the minimal low and the pivot low.
C28_TieGoesToTheEarliest ==
  Returns("findPivotPoints") =>
    \A i, j \in FullWindow :
      /\ TiedHighs(i, j) => i \in PivotHighs /\ j \notin PivotHighs
      /\ TiedLows(i, j) => i \in PivotLows /\ j \notin PivotLows

\* The relative price difference of two levels is at most the tolerance,
\* whichever of the two it is taken relative to.
WithinTolerance(a, b) ==
  /\ Abs(a.value - b.value) * 1000 <= ToleranceMilli * a.value
  /\ Abs(a.value - b.value) * 1000 <= ToleranceMilli * b.value

\* C29: consolidateLevels applied to two levels of one type whose relative
\* price difference is at most the tolerance returns exactly one level; its
\* touches is the sum of the touches of the two and its value is the mean of
\* their values weighted by their touches.
C29_MergedValueIsCountWeighted ==
  Returns("consolidateLevels") =>
    LET a == arg[1].levels[1]
        b == arg[1].levels[2]
    IN (a.type = b.type /\ WithinTolerance(a, b)) =>
         /\ Len(ret[1]) = 1
         /\ ret[1][1].touches = a.touches + b.touches
         /\ ret[1][1].value = Rat(a.value * a.touches + b.value * b.touches,
                                  a.touches + b.touches)

\* The spec's scenario: a bullish flag ranging 105.8-106.3, and a bar with at
\* least 60% of the pole's average volume that the cycle has processed.
InScenario(close) ==
  /\ arg[1].flagPattern = [range |-> [high |-> 1063, low |-> 1058],
                           direction |-> "bullish"]
  /\ arg[1].bar.close = close
  /\ arg[1].bar.volume * 10 >= ToNumber(SeedPattern("bullish_flag").pole_avg_volume)
                                 * VolumeFractionTenths
  /\ patterns # <<>>
  /\ ret # NULL

\* C30: in the spec's scenario, the cycle that processes a bar with close
\* 106.5 and enough volume transitions the pattern to BROKEN_OUT.
C30_ScenarioBreaksOut ==
  InScenario(1065) => patterns[1].stage = "BROKEN_OUT"

\* C30, amended: a close of 106.5 is above the breakout level but within the
\* tracker's buffer of 0.5% above it, and the pattern keeps its stage; a
\* close of 106.9 is beyond the buffer and transitions it to BROKEN_OUT.
C30_ScenarioBreaksOutBeyondBuffer ==
  /\ InScenario(1065) =>
       /\ patterns[1].stage = "FORMING"
       /\ arg[1].bar.close * ScenarioLevel[2] > patterns[1].breakout_level
  /\ InScenario(1069) => patterns[1].stage = "BROKEN_OUT"

C30_Witness ==
  /\ InScenario(1065)
  /\ patterns[1].stage = "FORMING"
  /\ ~ret[1].breakout

\* How often an id occurs in a list.
Occurrences(list, id) == Cardinality({ i \in DOMAIN list : list[i] = id })

\* C31: over any sequence or interleaving of cycles, at most one trade signal
\* (a row of strategy_executions) and at most one order is generated for a
\* pattern.
C31_OneSignalAndOrderPerPattern ==
  \A id \in DOMAIN patterns :
    /\ Occurrences(signals, id) <= 1
    /\ Occurrences(orders, id) <= 1

\* A step within one day: the row exists and no daily reset is due or done.
SameDay == /\ exec.exists /\ exec'.exists
           /\ exec.last_daily_reset = Today /\ exec'.last_daily_reset = Today

\* The counter is left alone or grows by the cycle's contribution.
Accumulates(before, after, contribution) ==
  after = before \/ after = before + contribution

\* C32: within one day every counter of execution_state after a cycle is
\* its value before the cycle plus the cycle's contribution: no step of a
\* cycle replaces an accumulated counter by a per-cycle count.
C32_CountersAccumulate ==
  [][\A c \in Cycles :
       (SameDay /\ cyc'[c] # cyc[c]) =>
         /\ Accumulates(exec.patterns_detected_today,
                        exec'.patterns_detected_today, cyc[c].created)
         /\ \/ Accumulates(exec.signals_generated_today,
                           exec'.signals_generated_today, cyc[c].sent)
            \/ Accumulates(exec.signals_generated_today,
                           exec'.signals_generated_today, Len(cyc[c].found))
         /\ Accumulates(exec.trades_executed_today,
                        exec'.trades_executed_today, cyc[c].traded)
         /\ Accumulates(exec.bars_analyzed, exec'.bars_analyzed, cyc[c].nbars)]_vars

\* Two prices, as fractions, are within the similarity threshold of each
\* other: their distance is at most 0.5% of the smaller one.
WithinSimilarity(p, q) ==
  Abs(p[1] * q[2] - q[1] * p[2]) * 1000
    <= SimilarLevelMilli * Min(p[1] * q[2], q[1] * p[2])

\* C33: after any sequence of upsertLevel calls one after the other, no two
\* active levels of one type have prices within the similarity threshold of
\* 0.5% of each other.
C33_ActiveLevelsAreApart ==
  \A i, j \in DOMAIN levels :
    (i < j /\ levels[i].is_active /\ levels[j].is_active
       /\ levels[i].level_type = levels[j].level_type)
      => ~WithinSimilarity(levels[i].price_level, levels[j].price_level)

\* The step is a call of upsertLevel on which no store call fails, for a
\* price that only invalidated rows of the type are similar to.
DetectedAtInvalidated ==
  /\ upserts' # upserts
  /\ faults' = faults
  /\ findSimilarLevel(lastUpsert'[1].price_level, lastUpsert'[1].level_type) = {}
  /\ \E i \in DOMAIN levels :
       /\ ~levels[i].is_active
       /\ levels[i].level_type = lastUpsert'[1].level_type
       /\ WithinSimilarity(levels[i].price_level, Rat(lastUpsert'[1].price_level, 1))

\* C34: an invalidated level is never made active again by an operation of
\* LevelManager, and upsertLevel leaves it as it is: a later detection at a
\* similar price inserts a new, active row.
C34_InvalidatedStaysInvalidated ==
  [][/\ \A i \in DOMAIN levels :
          ~levels[i].is_active =>
            /\ i \in DOMAIN levels'
            /\ ~levels'[i].is_active
            /\ upserts' # upserts => levels'[i] = levels[i]
     /\ DetectedAtInvalidated =>
          /\ Len(levels') = Len(levels) + 1
          /\ levels'[Len(levels')].is_active
          /\ levels'[Len(levels')].price_level = Rat(lastUpsert'[1].price_level, 1)]_vars

\* An invalidated level and an active level of its type at a similar price,
\* inserted by the one call of upsertLevel; no call has failed, so the call
\* came after the invalidation (before it, it would have updated the level).
C34_Witness ==
  \E i, j \in DOMAIN levels :
    /\ faults = 0
    /\ upserts = 1
    /\ i < j
    /\ ~levels[i].is_active
    /\ levels[i].reconfirmation_count = 0
    /\ levels[j].is_active
    /\ levels[i].level_type = levels[j].level_type
    /\ WithinSimilarity(levels[i].price_level, levels[j].price_level)

\* C35: no pattern is moved to BROKEN_OUT once its expires_at has passed,
\* that is, once getActivePatterns no longer selects it and the expiry sweep
\* takes it, however the breakout check and the sweep are ordered.
C35_NoBreakoutAfterExpiry ==
  [][\A id \in DOMAIN patterns :
       (patterns[id].stage # "BROKEN_OUT" /\ patterns'[id].stage = "BROKEN_OUT")
         => patterns[id].expires_at > now]_vars

\* C36: a pattern that detectFlag produced and that went through
\* convertFlagToPatternState and createPattern is stored with the stage
\* (CONFIRMED), the pole's average volume, the flag's high and low and the
\* expires_at the converter supplied, and its pole_avg_volume is set.
C36_StoredAsConverted ==
  [][\A c \in Cycles :
       (cyc[c].pc = "w7_detect" /\ cyc'[c] # cyc[c]
          /\ Len(patterns') = Len(patterns) + 1) =>
         LET patternData == convertFlagToPatternState(bars[cyc[c].cur], cyc[c].cur)
             row == patterns'[Len(patterns')]
         IN /\ row.stage = patternData.stage
            /\ row.pole_avg_volume = patternData.pole_avg_volume
            /\ row.pole_avg_volume # NULL
            /\ row.flag_high = patternData.flag_high
            /\ row.flag_low = patternData.flag_low
            /\ row.expires_at = patternData.expires_at]_vars

====
